---- MODULE Spec2Model ----
(***************************************************************************)
(* Model of the metadata server's storage engine (aruna-server):           *)
(* the LMDB/milli key-value environment, the in-memory petgraph graph      *)
(* behind an RwLock, the write requests of transactions/group.rs and the   *)
(* token resolution of storage/store.rs.                                   *)
(***************************************************************************)
EXTENDS Integers, Sequences, FiniteSets, TLC

(***************************************************************************)
(* Bounds of the model.                                                    *)
(***************************************************************************)
MaxRequests == 2
MaxCrash == 1

Writers == {"w1", "w2"}
Readers == {"r1"}

(***************************************************************************)
(* Program constants.                                                      *)
(***************************************************************************)
PERMISSION_NONE == 2
PERMISSION_READ == 3
PERMISSION_APPEND == 4
PERMISSION_WRITE == 5
PERMISSION_ADMIN == 6
OWNED_BY_USER == 8
HAS_PART == 0

NodeVariant ==
  { "ResourceProject", "ResourceFolder", "ResourceObject", "User", "Token",
    "ServiceAccount", "Group", "Realm" }

\* enum Permission (models.rs), by the names of its variants.
Permission == { "None", "Read", "Append", "Write", "Admin" }

\* `p as u32`: the discriminants of the #[repr(u32)] enum.
permission_as_u32(p) ==
  CASE p = "None" -> 2
    [] p = "Read" -> 3
    [] p = "Append" -> 4
    [] p = "Write" -> 5
    [] p = "Admin" -> 6

\* The values a u32 read from a relation record takes in the model.
MaxU32 == 12
U32Inputs == 0..MaxU32

\* Permission::try_from with a default arm that yields Permission::None.
permission_try_from_lenient(value) ==
  CASE value = PERMISSION_NONE -> "None"
    [] value = PERMISSION_READ -> "Read"
    [] value = PERMISSION_APPEND -> "Append"
    [] value = PERMISSION_WRITE -> "Write"
    [] value = PERMISSION_ADMIN -> "Admin"
    [] OTHER -> "None"

\* Permission::try_from(value: u32); "ConversionError" stands for
\* Err(ArunaError::ConversionError { .. }).
permission_try_from(value) ==
  CASE value = PERMISSION_NONE -> "None"
    [] value = PERMISSION_READ -> "Read"
    [] value = PERMISSION_APPEND -> "Append"
    [] value = PERMISSION_WRITE -> "Write"
    [] value = PERMISSION_ADMIN -> "Admin"
    [] OTHER -> "ConversionError"

\* The match of AddUserRequestTx::execute, with Read written as an owner edge.
permission_edge_type_owner(p) ==
  CASE p = "None" -> PERMISSION_NONE
    [] p = "Read" -> OWNED_BY_USER
    [] p = "Append" -> PERMISSION_APPEND
    [] p = "Write" -> PERMISSION_WRITE
    [] p = "Admin" -> PERMISSION_ADMIN

\* The match of AddUserRequestTx::execute from the requested Permission to
\* the edge type it writes.
permission_edge_type(p) ==
  CASE p = "None" -> PERMISSION_NONE
    [] p = "Read" -> PERMISSION_READ
    [] p = "Append" -> PERMISSION_APPEND
    [] p = "Write" -> PERMISSION_WRITE
    [] p = "Admin" -> PERMISSION_ADMIN

\* The permission levels an AddUser request is issued with in the model.
PermissionInputs == { "Read", "Admin" }

\* A Ulid is a 128-bit id; node ids are modelled as tagged serial numbers, so an
\* external id is never the internal idx it maps to.
Ulid(n) == << "ulid", n >>
NoUlid == << "ulid", -1 >>
\* Option<u32>::None
NoIdx == -1

\* The event id Ulid::new().0 drawn at millisecond ms: the timestamp in the
\* high bits, random bits below it.  The model keeps two values of the
\* random part.
UlidRandom == { 0, 1 }
UlidNew(ms, random) == ms * Cardinality(UlidRandom) + random

VARIABLES
  documents,         \* milli documents sub-database, committed: idx -> document
  relations,         \* relations sub-database, committed: source idx -> RawRelation
  events,            \* events sub-database (DUP_SORT), committed: set of <<idx, event_id>>
  read_permissions,  \* read_group_perms sub-database, committed: group idx -> set of idx
  wtxn,              \* the open heed write transaction and its uncommitted view
  graph,             \* Store.graph: [nodes: Seq(variant), edges: Seq(RawRelation)]
  pc,                \* position of each write request handler
  req,               \* the request each write handler runs
  loc,               \* locals of each write handler: event id and looked-up idx
  result,            \* outcome of each write handler
  clock,             \* millisecond clock read by Ulid::new()
  ulidCtr,           \* number of node ids issued so far
  reqCtr,            \* number of write requests issued so far
  rpc,               \* position of each reader
  rtxn,              \* each reader's read transaction (its snapshot)
  rreq,              \* the token id each reader resolves
  robs,              \* what each reader saw under the graph read guard
  rres,              \* the reader's result
  crashes,           \* number of process restarts so far
  ghost,             \* history needed to state the properties
  object_cache,      \* Cache.object_cache: object id -> ObjectWithRelations
  user_cache,        \* Cache.user_cache: user id -> User
  auth,              \* the last permission check: its inputs and its result
  issuers,           \* the token issuers: issuer name -> Issuer
  now,               \* Utc::now(), in minutes
  jwks,              \* the key ids the OIDC issuer's endpoint serves
  call,              \* the call of refresh_jwks or check_token under way
  refreshed,         \* issuer and last_updated of every successful refresh_jwks
  conv,              \* the values drawn for a conversion and the conversions' results
  waiting,           \* the handlers inside store.write_txn(), in the order of their calls
  issuer_keys,       \* single-entry database, ISSUER_KEYS: Option<Vec<IssuerKey>>
  key_config,        \* the key configuration the process was started with
  lock,              \* Cache.lock: AtomicBool
  pubkeys,           \* Cache.pubkeys: serial -> public key
  sync,              \* the run of Cache::sync_cache under way, and the database it reads
  getter             \* the call of get_object, get_user or get_pubkey under way

\* The state of the storage engine (aruna-server).
storeVars ==
  << documents, relations, events, read_permissions, wtxn, graph, pc, req, loc,
     result, clock, ulidCtr, reqCtr, rpc, rtxn, rreq, robs, rres, crashes, ghost >>

\* The state of the server's cache and authorization (src/caching, src/auth).
issuerVars == << issuers, now, jwks, call, refreshed >>

\* The state of the conversions applied to drawn values (src/aruna-server/src/models.rs).
codecVars == << conv >>

\* The handlers inside Store::write_txn that have not obtained the write
\* transaction yet (heed's write_txn, blocked on the environment's writer lock).
queueVars == << waiting >>

\* The issuer keys persisted under ISSUER_KEYS and the key configuration of
\* the running process (storage/init.rs).
startupVars == << issuer_keys, key_config >>

\* The cache's lock flag and public keys, the run of sync_cache and the
\* reader beside it (src/caching/cache.rs).
syncVars == << lock, pubkeys, sync, getter >>

\* The state of the components that are modelled on their own.
otherVars == << startupVars, syncVars >>

serverVars == << object_cache, user_cache, auth, issuerVars, codecVars, queueVars, otherVars >>

vars == << storeVars, serverVars >>

kvVars == << documents, relations, events, read_permissions >>
readerVars == << rpc, rtxn, rreq, robs, rres >>

(***************************************************************************)
(* Helpers on partial functions and sets of numbers.                       *)
(***************************************************************************)
EmptyMap == [x \in {} |-> 0]

Put(f, k, v) == [x \in (DOMAIN f) \cup {k} |-> IF x = k THEN v ELSE f[x]]

Min(S) == CHOOSE x \in S : \A y \in S : x <= y

RECURSIVE Ascending(_)
Ascending(S) == IF S = {} THEN << >> ELSE << Min(S) >> \o Ascending(S \ {Min(S)})


(***************************************************************************)
(* The key-value side: milli's id maps and primary-key assignment.         *)
(***************************************************************************)
\* Store::get_idx_from_ulid: external_documents_ids.get(txn, id).
get_idx_from_ulid(id, docs) ==
  IF \E i \in DOMAIN docs : docs[i].id = id
    THEN CHOOSE i \in DOMAIN docs : docs[i].id = id
    ELSE NoIdx

\* Store::get_ulid_from_idx: documents.get(txn, idx), field 0 of the record.
get_ulid_from_idx(idx, docs) ==
  IF idx \in DOMAIN docs THEN docs[idx].id ELSE NoUlid

\* milli's primary-key assignment inside IndexDocuments::execute: the first
\* docid not in use in the transaction's view.
AvailableDocumentsId(docs) ==
  Min({ i \in 0..Cardinality(DOMAIN docs) : i \notin DOMAIN docs })

\* The ids stored in the event log.
EventIds(evs) == { e[2] : e \in evs }

(***************************************************************************)
(* The graph side: petgraph::Graph<NodeVariant, EdgeType>.                 *)
(***************************************************************************)
EmptyGraph == [nodes |-> << >>, edges |-> << >>]

RawRelation(source, target, edge_type) ==
  [source |-> source, target |-> target, edge_type |-> edge_type]

\* Graph::add_node returns the index of the new vertex: the old node count.
node_count(g) == Len(g.nodes)
add_node(g, variant) == [g EXCEPT !.nodes = Append(@, variant)]

\* Graph::add_edge; it panics when an endpoint is no vertex of the graph.
add_edge_panics(g, source, target) ==
  ~(source \in 0..(node_count(g) - 1) /\ target \in 0..(node_count(g) - 1))
\* An add_edge that also adds the edge back from the target.
add_edge_both_ways(g, source, target, edge_type) ==
  [g EXCEPT !.edges = Append(Append(@, RawRelation(source, target, edge_type)),
                             RawRelation(target, source, edge_type))]

add_edge(g, source, target, edge_type) ==
  [g EXCEPT !.edges = Append(@, RawRelation(source, target, edge_type))]

\* Graph::node_weight
node_weight(g, idx) ==
  IF idx \in 0..(node_count(g) - 1) THEN g.nodes[idx + 1] ELSE "none"

\* Graph::neighbors(a): the targets of all outgoing edges of a, whatever their
\* edge type, the most recently added edge first.
RECURSIVE neighbors_from(_, _, _)
neighbors_from(g, a, k) ==
  IF k = 0 THEN << >>
  ELSE IF g.edges[k].source = a
    THEN << g.edges[k].target >> \o neighbors_from(g, a, k - 1)
    ELSE neighbors_from(g, a, k - 1)
neighbors(g, a) == neighbors_from(g, a, Len(g.edges))

\* graph::check_node_variant
check_node_variant(g, idx, variant) == node_weight(g, idx) = variant

\* graph::load_graph: one vertex per document in ascending idx order, one edge
\* per record of the relations sub-database in ascending key order.
load_graph(docs, rels) ==
  LET ds == Ascending(DOMAIN docs)
      rs == Ascending(DOMAIN rels)
  IN  [nodes |-> [i \in 1..Len(ds) |-> docs[ds[i]].variant],
       edges |-> [i \in 1..Len(rs) |-> rels[rs[i]]]]

\* The multiset of edges of a graph and of a relations sub-database, as the
\* number of occurrences of each (source, target, edge_type).
EdgeCount(g, r) == Cardinality({ k \in 1..Len(g.edges) : g.edges[k] = r })
RecordCount(rels, r) == Cardinality({ s \in DOMAIN rels : rels[s] = r })

(***************************************************************************)
(* Store operations on a write transaction's view and the graph.  Each     *)
(* returns the view and the graph it leaves behind and how it ended; fail  *)
(* names the fallible key-value call that returns an error, if any.        *)
(***************************************************************************)
\* Store::create_node
create_node(txn, g, event_id, node, fail) ==
  LET idx == AvailableDocumentsId(txn.documents)
      indexed == [txn EXCEPT !.documents = Put(@, idx, node)]
      index == node_count(g)
      g1 == add_node(g, node.variant)
  IN  IF fail = "index"
        \* builder.add_documents / builder.execute returned an error
        THEN [status |-> "DatabaseError", txn |-> txn, graph |-> g, idx |-> NoIdx]
      ELSE IF index # idx
        \* assert_eq!(index.index() as u32, idx) after graph.add_node
        THEN [status |-> "panic", txn |-> indexed, graph |-> g1, idx |-> NoIdx]
      ELSE IF fail = "events"
        \* self.events.put returned an error, after graph.add_node
        THEN [status |-> "DatabaseError", txn |-> indexed, graph |-> g1, idx |-> NoIdx]
      ELSE [status |-> "ok",
            txn |-> [indexed EXCEPT !.events = @ \cup { << idx, event_id >> }],
            graph |-> g1, idx |-> idx]

\* Store::create_relation
create_relation(txn, g, source, target, edge_type, fail) ==
  LET put == [txn EXCEPT
                !.relations = Put(@, source, RawRelation(source, target, edge_type))]
  IN  IF fail = "relations"
        THEN [status |-> "DatabaseError", txn |-> txn, graph |-> g]
      ELSE IF add_edge_panics(g, source, target)
        THEN [status |-> "panic", txn |-> put, graph |-> g]
      ELSE [status |-> "ok", txn |-> put,
            graph |-> add_edge(g, source, target, edge_type)]

\* Store::add_read_permission_universe(wtxn, group, universe)
add_read_permission_universe(txn, g, target, universe, fail) ==
  IF fail = "read_permissions"
    THEN [status |-> "DatabaseError", txn |-> txn, graph |-> g]
    ELSE [status |-> "ok",
          txn |-> [txn EXCEPT !.read_permissions =
                     Put(@, target,
                         (IF target \in DOMAIN @ THEN @[target] ELSE {}) \cup universe)],
          graph |-> g]

\* WriteTxn::commit(event_id, affected, subscribed): the event id is recorded
\* for every affected node, then the key-value transaction commits.
commit(txn, g, event_id, affected, fail) ==
  IF fail = "commit"
    THEN [status |-> "DatabaseError", txn |-> txn, graph |-> g]
    ELSE [status |-> "ok",
          txn |-> [txn EXCEPT !.events = @ \cup { << i, event_id >> : i \in affected }],
          graph |-> g]

(***************************************************************************)
(* Initial state: Store::new on an environment that holds one registered   *)
(* user and one of its tokens.                                             *)
(***************************************************************************)
InitEventId == UlidNew(0, 0)

InitDocuments ==
  (0 :> [id |-> Ulid(0), variant |-> "User"]) @@
  (1 :> [id |-> Ulid(1), variant |-> "Token"])

InitRelations == (1 :> RawRelation(1, 0, OWNED_BY_USER))

InitEvents == { << 0, InitEventId >>, << 1, InitEventId >> }

\* The ids of the users that send write requests.
Requesters == { Ulid(0) }

\* An id no node was ever created with.
UnknownId == Ulid(99)

\* The ids of the nodes in the store that are not groups: users, service
\* accounts and tokens.
AccountIds ==
  { documents[i].id : i \in { k \in DOMAIN documents : documents[k].variant # "Group" } }

\* The ids an AddUser request names as the user to add: the users, service
\* accounts and tokens in the store and an id that is not in the store.
UserIdInputs == AccountIds \cup { UnknownId }

\* The ids issued to groups so far.
GroupIds(issued) == { Ulid(n) : n \in 0..(issued - 1) } \ AccountIds

NoTxn ==
  [owner |-> "none", documents |-> EmptyMap, relations |-> EmptyMap,
   events |-> {}, read_permissions |-> EmptyMap]

NoReq ==
  [kind |-> "none", requester |-> NoUlid, id |-> NoUlid, group_id |-> NoUlid,
   user_id |-> NoUlid, permission |-> "None"]

NoLoc == [event_id |-> InitEventId, user_idx |-> NoIdx, group_idx |-> NoIdx]

\* A handler's outcome: how it ended and, for the properties, whether a graph or
\* key-value call of its transaction had run and what the transaction left behind.
Outcome(status) ==
  [status |-> status, ran |-> FALSE, vertices |-> 0, edges |-> 0, documents |-> 0,
   relations |-> 0]

NoResult == Outcome("none")

NoBegin == [nodes |-> 0, edges |-> 0, docs |-> {}, rels |-> EmptyMap, calls |-> 0, created |-> 0]

NoSnapshot == [open |-> FALSE, documents |-> EmptyMap, relations |-> EmptyMap]

\* What a reader saw when it took the graph read guard: the variant of the node
\* it resolves, the targets of that node's OwnedByUser edges, each with the
\* groups it has an edge to, and how many vertices and edges of a still
\* uncommitted write transaction the graph held.
NoObservation ==
  [taken |-> FALSE, variant |-> "none", owners |-> << >>, vertices |-> 0, edges |-> 0]

\* Result<Requester, ArunaError> of get_requester_from_token_id
Unauthorized == [kind |-> "Unauthorized", id |-> NoUlid, token_id |-> NoUlid, group_id |-> NoUlid]
NoRequester == [kind |-> "none", id |-> NoUlid, token_id |-> NoUlid, group_id |-> NoUlid]
RequesterUser(user_id, token_id) ==
  [kind |-> "User", id |-> user_id, token_id |-> token_id, group_id |-> NoUlid]
RequesterServiceAccount(service_account_id, token_id, group_id) ==
  [kind |-> "ServiceAccount", id |-> service_account_id, token_id |-> token_id,
   group_id |-> group_id]

\* No object id / no user id.
NoId == 0

\* The users of the user cache.
UserIds == { 11, 12 }

\* database::dsls::user_dsl::User as the cache holds it: the active flag and
\* the attributes the permission checks read.
User(active, global_admin, service_account, trusted_endpoints) ==
  [active |-> active, global_admin |-> global_admin,
   service_account |-> service_account, trusted_endpoints |-> trusted_endpoints]

\* No permission check has been made.
NoAuth ==
  [ctxs |-> << >>, permitted |-> << >>, main_id |-> NoId, is_proxy |-> FALSE,
   proxy_action |-> "None", result |-> "none"]

\* struct Issuer as refresh_jwks and check_token read it: pubkey_endpoint
\* is whether the issuer has one, decoding_keys the key ids of its keys.
Issuer(pubkey_endpoint, decoding_keys, last_updated, issuer_type) ==
  [pubkey_endpoint |-> pubkey_endpoint, decoding_keys |-> decoding_keys,
   last_updated |-> last_updated, issuer_type |-> issuer_type]

\* The key ids the OIDC issuer's endpoint serves at startup, and the key id
\* of the server's own key.
InitJwks == { "k1" }
ArunaKeys == { "k0" }

\* Issuer::new_with_endpoint: the keys fetch_jwks returns at time t.
new_with_endpoint(keys, t) == Issuer(TRUE, keys, t, "OIDC")

\* Issuer::new_with_keys at time t.
new_with_keys(decoding_keys, issuer_type, t) ==
  Issuer(FALSE, decoding_keys, t, issuer_type)

IssuerNames == { "oidc", "aruna" }

\* No call on an issuer is under way.
NoCall ==
  [pc |-> "idle", op |-> "none", issuer |-> "none", kid |-> "none",
   valid |-> FALSE, at |-> 0, refreshes |-> 0, fetches |-> 0, lookups |-> 0,
   before |-> Issuer(FALSE, {}, 0, "none"), result |-> "none"]

\* Cache::new followed by sync_cache on a database with two registered,
\* active users and no objects; an OIDC issuer and the server's own issuer.
\* No value has been drawn for a conversion.
NoConv == [done |-> {}]

\* A fresh directory: nothing is stored under ISSUER_KEYS and no process
\* has been started.
NoIssuerKeys == [some |-> FALSE, keys |-> << >>]
NoKeyConfig == [serial |-> 0, pubkey |-> "none"]

\* No run of sync_cache is under way.
NoSync ==
  [pc |-> "idle", objects |-> EmptyMap, users |-> EmptyMap,
   before |-> [object |-> EmptyMap, user |-> EmptyMap, pubkey |-> EmptyMap],
   result |-> "none"]

\* No getter has been called.
NoGetter == [pc |-> "idle", kind |-> "none", id |-> NoId, syncing |-> FALSE, value |-> << >>]

OtherInit ==
  /\ issuer_keys = NoIssuerKeys
  /\ key_config = NoKeyConfig
  /\ lock = FALSE
  /\ pubkeys = EmptyMap
  /\ sync = NoSync
  /\ getter = NoGetter

ServerInit ==
  /\ object_cache = EmptyMap
  /\ user_cache = [u \in UserIds |-> User(TRUE, FALSE, FALSE, {})]
  /\ auth = NoAuth
  /\ now = 0
  /\ jwks = InitJwks
  /\ issuers = [n \in IssuerNames |->
                  IF n = "oidc" THEN new_with_endpoint(InitJwks, 0)
                  ELSE new_with_keys(ArunaKeys, "ARUNA", 0)]
  /\ call = NoCall
  /\ refreshed = << >>
  /\ conv = NoConv
  /\ waiting = << >>
  /\ OtherInit

\* A store that starts with an empty graph.
StoreNewEmptyGraph(docs, rels) == EmptyGraph

\* Store::new
StoreNew(docs, rels) == load_graph(docs, rels)

Init ==
  /\ documents = InitDocuments
  /\ relations = InitRelations
  /\ events = InitEvents
  /\ read_permissions = EmptyMap
  /\ wtxn = NoTxn
  /\ graph = StoreNew(InitDocuments, InitRelations)
  /\ pc = [w \in Writers |-> "idle"]
  /\ req = [w \in Writers |-> NoReq]
  /\ loc = [w \in Writers |-> NoLoc]
  /\ result = [w \in Writers |-> NoResult]
  /\ clock = 1
  /\ ulidCtr = Cardinality(DOMAIN InitDocuments)
  /\ reqCtr = 0
  /\ rpc = [r \in Readers |-> "idle"]
  /\ rtxn = [r \in Readers |-> NoSnapshot]
  /\ rreq = [r \in Readers |-> NoUlid]
  /\ robs = [r \in Readers |-> NoObservation]
  /\ rres = [r \in Readers |-> NoRequester]
  /\ crashes = 0
  /\ ghost = [begin |-> NoBegin,
              committedNodes |-> Cardinality(DOMAIN InitDocuments),
              committedEids |-> { InitEventId },
              committedRels |-> { InitRelations[s] : s \in DOMAIN InitRelations },
              dropped |-> FALSE,
              fresh |-> FALSE,
              midTxn |-> FALSE]
  /\ ServerInit

(***************************************************************************)
(* Authorization of a write request (Controller::authorize).               *)
(***************************************************************************)
PermissionEdgeTypes == PERMISSION_NONE..PERMISSION_ADMIN

\* graph::get_permissions: the highest permission edge from the user, or from
\* a group the user has a permission edge to, to the resource; PERMISSION_NONE
\* when there is none.
graph_get_permissions(g, resource_idx, user_idx) ==
  LET E == { g.edges[k] : k \in 1..Len(g.edges) }
      grantors == {user_idx} \cup
        { e.target : e \in { x \in E : x.source = user_idx
                                        /\ x.edge_type \in PermissionEdgeTypes
                                        /\ node_weight(g, x.target) = "Group" } }
      levels == { e.edge_type : e \in { x \in E : x.source \in grantors
                                                   /\ x.target = resource_idx
                                                   /\ x.edge_type \in PermissionEdgeTypes } }
  IN  IF levels = {} THEN PERMISSION_NONE
      ELSE CHOOSE l \in levels : \A m \in levels : m <= l

\* Store::get_permissions: idx lookups in a read transaction, then the graph
\* under its read guard.  NoIdx stands for Err(Unauthorized).
get_permissions(g, docs, resource, user) ==
  LET resource_idx == get_idx_from_ulid(resource, docs)
      user_idx == get_idx_from_ulid(user, docs)
  IN  IF resource_idx = NoIdx \/ user_idx = NoIdx THEN NoIdx
      ELSE graph_get_permissions(g, resource_idx, user_idx)

\* An authorization that is content with any permission from Read upwards.
authorize_member(g, docs, r) ==
  IF r.kind = "AddUser"
    THEN get_permissions(g, docs, r.group_id, r.requester) >= PERMISSION_READ
    ELSE r.requester # NoUlid

\* Controller::authorize for the request's context: CreateGroup is UserOnly,
\* AddUser needs Permission { min_permission: Admin, source: group_id }.
authorize(g, docs, r) ==
  IF r.kind = "AddUser"
    THEN get_permissions(g, docs, r.group_id, r.requester) >= PERMISSION_ADMIN
    ELSE r.requester # NoUlid

(***************************************************************************)
(* Write request handlers.                                                 *)
(***************************************************************************)
\* A write transaction handed out while another one is open.
write_txn_unlocked == TRUE

\* The write lock of the LMDB environment: Store::write_txn returns only when
\* no other write transaction is open.
write_txn_available == wtxn.owner = "none"

\* Store::write_txn
write_txn(w) ==
  [owner |-> w, documents |-> documents, relations |-> relations,
   events |-> events, read_permissions |-> read_permissions]

\* The handler leaves its closure with an error or a panic: the RwTxn is
\* dropped without commit, the graph stays as the calls left it.
Dropped(w, status, g, ran) ==
  /\ wtxn' = NoTxn
  /\ graph' = g
  /\ pc' = [pc EXCEPT ![w] = "done"]
  /\ result' = [result EXCEPT ![w] =
       [status |-> status,
        ran |-> ran,
        vertices |-> node_count(g) - ghost.begin.nodes,
        edges |-> Len(g.edges) - ghost.begin.edges,
        documents |-> Cardinality((DOMAIN documents) \ ghost.begin.docs),
        relations |-> Cardinality({ s \in DOMAIN relations :
                                      s \notin DOMAIN ghost.begin.rels
                                      \/ relations[s] # ghost.begin.rels[s] })]]
  /\ ghost' = [ghost EXCEPT
       !.begin = NoBegin,
       !.dropped = @ \/ node_count(g) > ghost.begin.nodes
                     \/ Len(g.edges) > ghost.begin.edges]
  /\ req' = [req EXCEPT ![w] = NoReq]
  /\ loc' = [loc EXCEPT ![w] = NoLoc]
  /\ UNCHANGED kvVars

\* The call succeeded: the handler goes on with the view and graph it left.
Continue(w, next, out, calls, created) ==
  /\ wtxn' = out.txn
  /\ graph' = out.graph
  /\ pc' = [pc EXCEPT ![w] = next]
  /\ ghost' = [ghost EXCEPT !.begin.calls = @ + calls, !.begin.created = @ + created]
  /\ UNCHANGED << kvVars, req, result >>

\* A handler starts its request.  The request is authorized by the first line
\* of execute (controller.authorize); a denied request ends there, without
\* opening a write transaction.
Started(w, r, event_id) ==
  IF authorize(graph, documents, r)
    THEN /\ req' = [req EXCEPT ![w] = r]
         /\ loc' = [loc EXCEPT ![w] = [NoLoc EXCEPT !.event_id = event_id]]
         /\ pc' = [pc EXCEPT ![w] = "write_txn"]
         /\ UNCHANGED result
    ELSE /\ pc' = [pc EXCEPT ![w] = "done"]
         /\ result' = [result EXCEPT ![w] = Outcome("Forbidden")]
         /\ UNCHANGED << req, loc >>

\* CreateGroupRequest::run_request: the group id and the event id are drawn
\* with Ulid::new(), then controller.transaction hands the request to execute.
RunCreateGroup(w) ==
  /\ pc[w] = "idle"
  /\ reqCtr < MaxRequests
  /\ \E requester \in Requesters, ms \in {clock, clock + 1}, random \in UlidRandom :
       /\ Started(w, [NoReq EXCEPT !.kind = "CreateGroup", !.requester = requester,
                                !.id = Ulid(ulidCtr)],
               UlidNew(ms, random))
       /\ clock' = ms
  /\ ulidCtr' = ulidCtr + 1
  /\ reqCtr' = reqCtr + 1
  /\ UNCHANGED << kvVars, wtxn, graph, readerVars, crashes, ghost >>
  /\ UNCHANGED serverVars

\* AddUserRequest::run_request
RunAddUser(w) ==
  /\ pc[w] = "idle"
  /\ reqCtr < MaxRequests
  /\ \E requester \in Requesters, permission \in PermissionInputs,
        group_id \in GroupIds(ulidCtr), user_id \in UserIdInputs,
        ms \in {clock, clock + 1}, random \in UlidRandom :
       /\ Started(w, [NoReq EXCEPT !.kind = "AddUser", !.requester = requester,
                                !.group_id = group_id, !.user_id = user_id,
                                !.permission = permission],
               UlidNew(ms, random))
       /\ clock' = ms
  /\ reqCtr' = reqCtr + 1
  /\ UNCHANGED << kvVars, wtxn, graph, ulidCtr, readerVars, crashes, ghost >>
  /\ UNCHANGED serverVars

\* store.write_txn() has returned the write transaction to the handler: the
\* closure of execute up to the idx lookups in the write transaction.
Obtained(w) ==
  /\ pc[w] = "write_txn"
  /\ write_txn_available
  /\ LET txn == write_txn(w)
         user_id == IF req[w].kind = "CreateGroup" THEN req[w].requester ELSE req[w].user_id
         user_idx == get_idx_from_ulid(user_id, txn.documents)
         group_idx == IF req[w].kind = "CreateGroup" THEN NoIdx
                      ELSE get_idx_from_ulid(req[w].group_id, txn.documents)
         begin == [nodes |-> node_count(graph), edges |-> Len(graph.edges),
                   docs |-> DOMAIN documents, rels |-> relations,
                   calls |-> 0, created |-> 0]
     IN  IF user_idx = NoIdx \/ (req[w].kind = "AddUser" /\ group_idx = NoIdx)
           THEN \* return Err(ArunaError::NotFound(..)): the transaction is dropped
                /\ wtxn' = NoTxn
                /\ pc' = [pc EXCEPT ![w] = "done"]
                /\ result' = [result EXCEPT ![w] = Outcome("NotFound")]
                /\ ghost' = [ghost EXCEPT !.fresh = FALSE]
                /\ req' = [req EXCEPT ![w] = NoReq]
                /\ loc' = [loc EXCEPT ![w] = NoLoc]
           ELSE /\ wtxn' = txn
                /\ pc' = [pc EXCEPT ![w] =
                     IF req[w].kind = "CreateGroup" THEN "create_node"
                     ELSE "create_relation"]
                /\ loc' = [loc EXCEPT ![w].user_idx = user_idx, ![w].group_idx = group_idx]
                /\ ghost' = [ghost EXCEPT !.begin = begin, !.fresh = FALSE]
                /\ UNCHANGED << req, result >>
  /\ UNCHANGED << kvVars, graph, clock, ulidCtr, reqCtr, readerVars, crashes >>

\* The spawn_blocking closure of execute, from store.write_txn() to the idx
\* lookups in the write transaction.
WriteTxn(w) ==
  /\ Obtained(w)
  /\ UNCHANGED serverVars

\* CreateGroupRequestTx::execute: store.create_node(&mut wtxn, &group)
CreateNode(w) ==
  /\ pc[w] = "create_node"
  /\ wtxn.owner = w
  /\ \E fail \in { "none", "index", "events" } :
       LET node == [id |-> req[w].id, variant |-> "Group"]
           out == create_node(wtxn, graph, loc[w].event_id, node, fail)
       IN  IF out.status = "ok"
             THEN /\ Continue(w, "create_relation", out, 1, 1)
                  /\ loc' = [loc EXCEPT ![w].group_idx = out.idx]
             ELSE Dropped(w, out.status, out.graph,
                          ghost.begin.calls > 0 \/ out.graph # graph)
  /\ UNCHANGED << clock, ulidCtr, reqCtr, readerVars, crashes >>
  /\ UNCHANGED serverVars

\* store.create_relation(&mut wtxn, user_idx, group_idx, permission)
CreateRelation(w) ==
  /\ pc[w] = "create_relation"
  /\ wtxn.owner = w
  /\ \E fail \in { "none", "relations" } :
       LET edge_type == IF req[w].kind = "CreateGroup" THEN PERMISSION_ADMIN
                        ELSE permission_edge_type(req[w].permission)
           out == create_relation(wtxn, graph, loc[w].user_idx, loc[w].group_idx,
                                  edge_type, fail)
       IN  IF out.status = "ok"
             THEN /\ Continue(w, IF req[w].kind = "CreateGroup"
                                   THEN "add_read_permission_universe" ELSE "commit",
                              out, 1, 0)
                  /\ UNCHANGED loc
             ELSE Dropped(w, out.status, out.graph, ghost.begin.calls > 0)
  /\ UNCHANGED << clock, ulidCtr, reqCtr, readerVars, crashes >>
  /\ UNCHANGED serverVars

\* store.add_read_permission_universe(&mut wtxn, group_idx, &[group_idx])
AddReadPermissionUniverse(w) ==
  /\ pc[w] = "add_read_permission_universe"
  /\ wtxn.owner = w
  /\ \E fail \in { "none", "read_permissions" } :
       LET out == add_read_permission_universe(wtxn, graph, loc[w].group_idx,
                                               { loc[w].group_idx }, fail)
       IN  IF out.status = "ok"
             THEN /\ Continue(w, "commit", out, 0, 0)
                  /\ UNCHANGED loc
             ELSE Dropped(w, out.status, out.graph, ghost.begin.calls > 0)
  /\ UNCHANGED << clock, ulidCtr, reqCtr, readerVars, crashes >>
  /\ UNCHANGED serverVars

\* A successful commit publishes the transaction's view.
Committed(w, txn) ==
  /\ documents' = txn.documents
  /\ relations' = txn.relations
  /\ events' = txn.events
  /\ read_permissions' = txn.read_permissions
  /\ wtxn' = NoTxn
  /\ pc' = [pc EXCEPT ![w] = "done"]
  /\ result' = [result EXCEPT ![w] = Outcome("ok")]
  /\ ghost' = [ghost EXCEPT
       !.begin = NoBegin,
       !.committedNodes = @ + ghost.begin.created,
       !.committedEids = @ \cup { loc[w].event_id },
       !.committedRels = @ \cup { txn.relations[s] : s \in DOMAIN txn.relations }]
  /\ req' = [req EXCEPT ![w] = NoReq]
  /\ loc' = [loc EXCEPT ![w] = NoLoc]
  /\ UNCHANGED graph

\* wtxn.commit(associated_event_id, &[user_idx, group_idx], &[])
Commit(w) ==
  /\ pc[w] = "commit"
  /\ wtxn.owner = w
  /\ \E fail \in { "none", "commit" } :
       LET out == commit(wtxn, graph, loc[w].event_id,
                         { loc[w].user_idx, loc[w].group_idx }, fail)
       IN  IF out.status = "ok"
             THEN Committed(w, out.txn)
             ELSE Dropped(w, out.status, out.graph, ghost.begin.calls > 0)
  /\ UNCHANGED << clock, ulidCtr, reqCtr, readerVars, crashes >>
  /\ UNCHANGED serverVars

\* The handler returns its response or error to the caller.
Return(w) ==
  /\ pc[w] = "done"
  /\ pc' = [pc EXCEPT ![w] = "idle"]
  /\ result' = [result EXCEPT ![w] = NoResult]
  /\ UNCHANGED << kvVars, wtxn, graph, req, loc, clock, ulidCtr, reqCtr, readerVars,
                  crashes, ghost >>
  /\ UNCHANGED serverVars

(***************************************************************************)
(* Readers: Store::get_requester_from_token_id.                            *)
(***************************************************************************)
\* A read transaction that sees the open write transaction's view.
read_txn_uncommitted ==
  IF wtxn.owner = "none"
    THEN [open |-> TRUE, documents |-> documents, relations |-> relations]
    ELSE [open |-> TRUE, documents |-> wtxn.documents, relations |-> wtxn.relations]

\* Store::read_txn: a snapshot of the committed environment.
read_txn == [open |-> TRUE, documents |-> documents, relations |-> relations]

\* The first neighbour of a service account that is a Group, NoIdx if none.
RECURSIVE find_group(_, _, _)
find_group(g, ns, k) ==
  IF k > Len(ns) THEN NoIdx
  ELSE IF node_weight(g, ns[k]) = "Group" THEN ns[k]
  ELSE find_group(g, ns, k + 1)

\* The loop over graph.neighbors(internal_idx) of get_requester_from_token_id,
\* from its k-th element on.
RECURSIVE check_neighbors(_, _, _, _, _)
check_neighbors(g, docs, token_id, ns, k) ==
  IF k > Len(ns) THEN Unauthorized
  ELSE LET neighbor == ns[k]
           node == node_weight(g, neighbor)
       IN  IF node = "none" THEN Unauthorized
           ELSE IF node = "User"
             THEN IF get_ulid_from_idx(neighbor, docs) # NoUlid
                    THEN RequesterUser(get_ulid_from_idx(neighbor, docs), token_id)
                    ELSE check_neighbors(g, docs, token_id, ns, k + 1)
           ELSE IF node = "ServiceAccount"
             THEN LET service_account_id == get_ulid_from_idx(neighbor, docs)
                      group == find_group(g, neighbors(g, neighbor), 1)
                      group_id == get_ulid_from_idx(group, docs)
                  IN  IF service_account_id = NoUlid \/ group = NoIdx \/ group_id = NoUlid
                        THEN Unauthorized
                        ELSE RequesterServiceAccount(service_account_id, token_id, group_id)
           ELSE Unauthorized

\* get_requester_from_token_id once the idx of the token id is known.
get_requester(g, docs, token_id, internal_idx) ==
  IF ~check_node_variant(g, internal_idx, "Token") THEN Unauthorized
  ELSE check_neighbors(g, docs, token_id, neighbors(g, internal_idx), 1)

\* The targets of the outgoing edges of type edge_type of vertex a, oldest first.
Targets(g, a, edge_type) ==
  LET ks == Ascending({ k \in 1..Len(g.edges) :
                          g.edges[k].source = a /\ g.edges[k].edge_type = edge_type })
  IN  [i \in 1..Len(ks) |-> g.edges[ks[i]].target]

\* The ids of the groups vertex a has an edge to.
GroupsOf(g, docs, a) ==
  { get_ulid_from_idx(g.edges[k].target, docs) :
      k \in { j \in 1..Len(g.edges) : /\ g.edges[j].source = a
                                      /\ node_weight(g, g.edges[j].target) = "Group" } }

\* The ids a reader asks about: the tokens, users and service accounts in the
\* store and an id that is not in the store.
TokenIdInputs == AccountIds \cup { UnknownId }

\* get_requester_from_token_id, lines 324-330: the read transaction and the
\* lookup of the token's idx.
ReadTxn(r) ==
  /\ rpc[r] = "idle"
  /\ \E token_id \in TokenIdInputs :
       LET txn == read_txn
       IN  /\ rtxn' = [rtxn EXCEPT ![r] = txn]
           /\ rreq' = [rreq EXCEPT ![r] = token_id]
           /\ IF get_idx_from_ulid(token_id, txn.documents) = NoIdx
                THEN /\ rpc' = [rpc EXCEPT ![r] = "done"]
                     /\ rres' = [rres EXCEPT ![r] = Unauthorized]
                ELSE /\ rpc' = [rpc EXCEPT ![r] = "read_txn"]
                     /\ UNCHANGED rres
  /\ UNCHANGED << kvVars, wtxn, graph, pc, req, loc, result, clock, ulidCtr, reqCtr,
                  robs, crashes, ghost >>
  /\ UNCHANGED serverVars

\* get_requester_from_token_id, lines 334-398: under the graph read guard.
GraphRead(r) ==
  /\ rpc[r] = "read_txn"
  /\ LET internal_idx == get_idx_from_ulid(rreq[r], rtxn[r].documents)
         owners == Targets(graph, internal_idx, OWNED_BY_USER)
     IN  /\ rres' = [rres EXCEPT ![r] =
               get_requester(graph, rtxn[r].documents, rreq[r], internal_idx)]
         /\ robs' = [robs EXCEPT ![r] =
               [taken |-> TRUE,
                variant |-> node_weight(graph, internal_idx),
                owners |-> [i \in 1..Len(owners) |->
                              [variant |-> node_weight(graph, owners[i]),
                               id |-> get_ulid_from_idx(owners[i], rtxn[r].documents),
                               groups |-> GroupsOf(graph, rtxn[r].documents, owners[i])]],
                vertices |-> IF wtxn.owner = "none" THEN 0
                             ELSE node_count(graph) - ghost.begin.nodes,
                edges |-> IF wtxn.owner = "none" THEN 0
                          ELSE Len(graph.edges) - ghost.begin.edges]]
  /\ rpc' = [rpc EXCEPT ![r] = "done"]
  /\ UNCHANGED << kvVars, wtxn, graph, pc, req, loc, result, clock, ulidCtr, reqCtr,
                  rtxn, rreq, crashes, ghost >>
  /\ UNCHANGED serverVars

\* The reader returns: guard and read transaction are dropped.
ReaderReturn(r) ==
  /\ rpc[r] = "done"
  /\ rpc' = [rpc EXCEPT ![r] = "idle"]
  /\ rtxn' = [rtxn EXCEPT ![r] = NoSnapshot]
  /\ rreq' = [rreq EXCEPT ![r] = NoUlid]
  /\ robs' = [robs EXCEPT ![r] = NoObservation]
  /\ rres' = [rres EXCEPT ![r] = NoRequester]
  /\ UNCHANGED << kvVars, wtxn, graph, pc, req, loc, result, clock, ulidCtr, reqCtr,
                  crashes, ghost >>
  /\ UNCHANGED serverVars

(***************************************************************************)
(* The process is killed and started again: everything volatile is lost,   *)
(* the key-value environment holds what was committed, Store::new rebuilds *)
(* the graph.                                                              *)
(***************************************************************************)
Restart ==
  /\ crashes < MaxCrash
  /\ crashes' = crashes + 1
  /\ graph' = StoreNew(documents, relations)
  /\ wtxn' = NoTxn
  /\ pc' = [w \in Writers |-> "idle"]
  /\ req' = [w \in Writers |-> NoReq]
  /\ loc' = [w \in Writers |-> NoLoc]
  /\ result' = [w \in Writers |-> NoResult]
  /\ rpc' = [r \in Readers |-> "idle"]
  /\ rtxn' = [r \in Readers |-> NoSnapshot]
  /\ rreq' = [r \in Readers |-> NoUlid]
  /\ robs' = [r \in Readers |-> NoObservation]
  /\ rres' = [r \in Readers |-> NoRequester]
  /\ ghost' = [ghost EXCEPT !.begin = NoBegin, !.fresh = TRUE, !.dropped = FALSE,
                            !.midTxn = (wtxn.owner # "none" /\ ghost.begin.created > 0)]
  /\ UNCHANGED << kvVars, clock, ulidCtr, reqCtr >>
  /\ UNCHANGED serverVars

\* The steps of one write request handler.
WriterNext(w) ==
  \/ RunCreateGroup(w)
  \/ RunAddUser(w)
  \/ WriteTxn(w)
  \/ CreateNode(w)
  \/ CreateRelation(w)
  \/ AddReadPermissionUniverse(w)
  \/ Commit(w)
  \/ Return(w)

\* The steps of one reader.
ReaderNext(r) ==
  \/ ReadTxn(r)
  \/ GraphRead(r)
  \/ ReaderReturn(r)

\* Concurrent write requests and restarts of the process.
Next ==
  \/ \E w \in Writers : WriterNext(w)
  \/ Restart

Spec == Init /\ [][Next]_vars

\* One write request at a time, with a concurrent reader.
ReadWriters == { "w1" }

NextRead ==
  \/ \E w \in ReadWriters : WriterNext(w)
  \/ \E r \in Readers : ReaderNext(r)

SpecRead == Init /\ [][NextRead]_vars

(***************************************************************************)
(* Properties.                                                             *)
(***************************************************************************)
\* No write transaction is open.
Quiescent == wtxn.owner = "none"

InTransaction(w) ==
  pc[w] \in { "create_node", "create_relation", "add_read_permission_universe", "commit" }

Edges(g) == { g.edges[k] : k \in 1..Len(g.edges) }
Records(rels) == { rels[s] : s \in DOMAIN rels }

\* C1: at every quiescent point each committed document's idx is the index of
\* a graph vertex carrying the document's variant, the graph has no further
\* vertex, and the idx in use are 0..n-1 with none skipped.
C1_GraphMatchesDocuments ==
  Quiescent =>
    /\ DOMAIN documents = 0..(Cardinality(DOMAIN documents) - 1)
    /\ node_count(graph) = Cardinality(DOMAIN documents)
    /\ \A i \in DOMAIN documents : node_weight(graph, i) = documents[i].variant

\* C2: a write request that failed after a create_node or create_relation of
\* its transaction had run has left no vertex and no edge in the graph and no
\* document and no relation record in the key-value store.
C2_FailedTransactionLeavesNothing ==
  \A w \in Writers :
    (pc[w] = "done" /\ result[w].status # "ok" /\ result[w].ran) =>
      /\ result[w].vertices = 0
      /\ result[w].edges = 0
      /\ result[w].documents = 0
      /\ result[w].relations = 0

\* C3: at every quiescent point of a run in which no transaction failed, each
\* edge of the graph has exactly one matching record in the relations
\* sub-database and each record exactly one matching edge.
C3_EdgesMatchRelations ==
  (Quiescent /\ ~ghost.dropped) =>
    \A r \in Edges(graph) \cup Records(relations) :
      EdgeCount(graph, r) = 1 /\ RecordCount(relations, r) = 1

\* C4: the snapshot of an open read transaction holds the documents of idx
\* 0..k-1 for some k, each as it was committed, and no relation record that
\* was never committed.
C4_ReadersSeeCommittedPrefix ==
  \A r \in Readers :
    rtxn[r].open =>
      /\ DOMAIN rtxn[r].documents = 0..(Cardinality(DOMAIN rtxn[r].documents) - 1)
      /\ \A i \in DOMAIN rtxn[r].documents :
           i \in DOMAIN documents /\ documents[i] = rtxn[r].documents[i]
      /\ \A s \in DOMAIN rtxn[r].relations :
           rtxn[r].relations[s] \in ghost.committedRels

C4_Witness ==
  \E r \in Readers :
    /\ rpc[r] = "read_txn"
    /\ wtxn.owner # "none"
    /\ DOMAIN wtxn.documents # DOMAIN documents
    /\ wtxn.relations # relations
    /\ rtxn[r].documents = documents

\* C5: a reader that takes the graph read guard while a write transaction is
\* open sees no vertex and no edge that this transaction has added.
C5_ReadersSeeNoUncommittedGraph ==
  \A r \in Readers : robs[r].taken => (robs[r].vertices = 0 /\ robs[r].edges = 0)

\* C6: every event id that a step adds to the event log is greater than every
\* event id the log held before.
C6_EventIdsIncrease ==
  [][\A e \in EventIds(events') \ EventIds(events) :
       \A o \in EventIds(events) : o < e]_vars

\* C7: at most one write request is between write_txn() and the end of its
\* transaction.
C7_SingleWriter ==
  Cardinality({ w \in Writers : InTransaction(w) }) <= 1

C7_Witness ==
  \E w \in Writers, v \in Writers :
    /\ pc[w] = "write_txn"
    /\ InTransaction(v)
    /\ wtxn.owner = v

\* C8: right after a restart the store holds exactly the documents of the
\* committed create-node transactions, the rebuilt graph has as many vertices,
\* the event log holds exactly the event ids of the committed transactions,
\* and the next create_node gets the next idx in the key-value store and in
\* the graph alike.
C8_RestartRestoresCommitted ==
  ghost.fresh =>
    LET n == ghost.committedNodes
        next == create_node(write_txn("w1"), graph, UlidNew(clock + 1, 0),
                            [id |-> Ulid(ulidCtr), variant |-> "Group"], "none")
    IN  /\ DOMAIN documents = 0..(n - 1)
        /\ node_count(graph) = n
        /\ EventIds(events) = ghost.committedEids
        /\ next.status = "ok"
        /\ next.idx = n
        /\ node_count(next.graph) = n + 1

C8_Witness ==
  /\ ghost.fresh
  /\ ghost.midTxn
  /\ ghost.committedNodes > Cardinality(DOMAIN InitDocuments)

\* C9: at every quiescent point of a run in which no transaction failed, the
\* graph rebuilt from the documents and relations sub-databases has the
\* vertices and the multiset of edges of the in-memory graph.
C9_RebuildEqualsGraph ==
  (Quiescent /\ ~ghost.dropped) =>
    LET rebuilt == load_graph(documents, relations)
    IN  /\ rebuilt.nodes = graph.nodes
        /\ \A r \in Edges(graph) \cup Edges(rebuilt) :
             EdgeCount(rebuilt, r) = EdgeCount(graph, r)

\* C10: the resolution of a token id returns a requester only for a Token
\* node with exactly one OwnedByUser edge, to a User or ServiceAccount, and
\* then that target; a Token with exactly one OwnedByUser edge to a visible
\* User resolves to that user whatever other edges it has; a node of another
\* variant yields Unauthorized.  Stated for readers of a graph that holds
\* the vertices and edges of committed transactions only.
C10_OnlyOwnedByUserDecides ==
  \A r \in Readers :
    (/\ rpc[r] = "done" /\ robs[r].taken
     /\ robs[r].vertices = 0 /\ robs[r].edges = 0 /\ ~ghost.dropped) =>
      LET o == robs[r]
          res == rres[r]
      IN  /\ res.kind \in { "User", "ServiceAccount" } =>
               /\ o.variant = "Token"
               /\ Len(o.owners) = 1
               /\ o.owners[1].variant \in { "User", "ServiceAccount" }
               /\ res.id = o.owners[1].id
          /\ ( /\ o.variant = "Token"
               /\ Len(o.owners) = 1
               /\ o.owners[1].variant = "User"
               /\ o.owners[1].id # NoUlid ) =>
               res = RequesterUser(o.owners[1].id, rreq[r])
          /\ o.variant # "Token" => res = Unauthorized

\* The ids of the User and ServiceAccount targets of the OwnedByUser edges a
\* reader found on the node it resolved.
OwnerIds(o) ==
  { o.owners[i].id : i \in { k \in 1..Len(o.owners) :
                               o.owners[k].variant \in { "User", "ServiceAccount" } } }

\* C11: a token resolves to a requester exactly when the graph, at the moment
\* of the resolution, has an OwnedByUser edge from the token to that
\* requester's user or service account: a returned requester is the target of
\* such an edge, and a Token with such an edge to a visible owner is resolved
\* and not rejected.  Stated for readers of a graph that holds the vertices
\* and edges of committed transactions only.
C11_ResolvesIffOwnershipEdge ==
  \A r \in Readers :
    (/\ rpc[r] = "done" /\ robs[r].taken /\ robs[r].variant = "Token"
     /\ robs[r].vertices = 0 /\ robs[r].edges = 0 /\ ~ghost.dropped) =>
      \A id \in { Ulid(n) : n \in 0..(ulidCtr - 1) } :
        (rres[r].kind \in { "User", "ServiceAccount" } /\ rres[r].id = id)
          <=> id \in OwnerIds(robs[r])

(***************************************************************************)
(* A store that also holds a service account, its token and a group the    *)
(* account is a member of, with one write handler and one reader.          *)
(***************************************************************************)
AccountDocuments ==
  InitDocuments @@
  (2 :> [id |-> Ulid(2), variant |-> "ServiceAccount"]) @@
  (3 :> [id |-> Ulid(3), variant |-> "Token"]) @@
  (4 :> [id |-> Ulid(4), variant |-> "Group"])

AccountRelations ==
  (0 :> RawRelation(0, 4, PERMISSION_ADMIN)) @@
  (1 :> RawRelation(1, 0, OWNED_BY_USER)) @@
  (2 :> RawRelation(2, 4, PERMISSION_READ)) @@
  (3 :> RawRelation(3, 2, OWNED_BY_USER))

InitAccount ==
  /\ documents = AccountDocuments
  /\ relations = AccountRelations
  /\ events = { << i, InitEventId >> : i \in DOMAIN AccountDocuments }
  /\ read_permissions = (4 :> {4})
  /\ wtxn = NoTxn
  /\ graph = StoreNew(AccountDocuments, AccountRelations)
  /\ pc = [w \in Writers |-> "idle"]
  /\ req = [w \in Writers |-> NoReq]
  /\ loc = [w \in Writers |-> NoLoc]
  /\ result = [w \in Writers |-> NoResult]
  /\ clock = 1
  /\ ulidCtr = Cardinality(DOMAIN AccountDocuments)
  /\ reqCtr = 0
  /\ rpc = [r \in Readers |-> "idle"]
  /\ rtxn = [r \in Readers |-> NoSnapshot]
  /\ rreq = [r \in Readers |-> NoUlid]
  /\ robs = [r \in Readers |-> NoObservation]
  /\ rres = [r \in Readers |-> NoRequester]
  /\ crashes = 0
  /\ ghost = [begin |-> NoBegin,
              committedNodes |-> Cardinality(DOMAIN AccountDocuments),
              committedEids |-> { InitEventId },
              committedRels |-> { AccountRelations[x] : x \in DOMAIN AccountRelations },
              dropped |-> FALSE,
              fresh |-> FALSE,
              midTxn |-> FALSE]
  /\ ServerInit

SpecAccount == InitAccount /\ [][NextRead]_vars

\* C12: a token resolves to Requester::ServiceAccount only if the service
\* account that owns it is a member of exactly one group, and then the
\* requester's group_id is that group.  Stated for readers of a graph that
\* holds the vertices and edges of committed transactions only.
C12_ServiceAccountInExactlyOneGroup ==
  \A r \in Readers :
    (/\ rpc[r] = "done" /\ robs[r].taken /\ rres[r].kind = "ServiceAccount"
     /\ robs[r].vertices = 0 /\ robs[r].edges = 0 /\ ~ghost.dropped) =>
      \E i \in 1..Len(robs[r].owners) :
        /\ robs[r].owners[i].variant = "ServiceAccount"
        /\ robs[r].owners[i].id = rres[r].id
        /\ robs[r].owners[i].groups = { rres[r].group_id }

(***************************************************************************)
(* The server's cache and its permission checks (src/caching/cache.rs,     *)
(* src/auth/permission_handler.rs).                                        *)
(***************************************************************************)

\* The number of objects the cache comes to hold.
MaxObjects == 3

\* Object ids, in the order the objects are created.
ObjectIds == 1..MaxObjects

\* The data proxies whose signed tokens are checked.
EndpointIds == { 21, 22 }

\* The data proxies that come to hold objects and to be trusted by users.
HostingEndpointIds == { 21 }

\* DbPermissionLevel, ordered as the derive(PartialOrd) of its declaration
\* orders it.
DENY == 1
NONE == 2
READ == 3
APPEND == 4
WRITE == 5
ADMIN == 6

\* The levels the checks are made with.
PermissionLevelInputs == { NONE, READ, WRITE, ADMIN }

\* ObjectWithRelations as the checks read it: the children of
\* outbound_belongs_to and the endpoints of the object.
ObjectWithRelations(children, endpoints) ==
  [children |-> children, endpoints |-> endpoints]

\* auth::structs::Context, by variant.
ContextActivated == [variant |-> "Activated", id |-> NoId, perm |-> NONE]
ContextResource(id, perm) == [variant |-> "Resource", id |-> id, perm |-> perm]
ContextUser(uid, perm) == [variant |-> "User", id |-> uid, perm |-> perm]
ContextGlobalAdmin == [variant |-> "GlobalAdmin", id |-> NoId, perm |-> NONE]
ContextProxy == [variant |-> "GlobalProxy", id |-> NoId, perm |-> NONE]

\* HashMap::remove.
Remove(map, key) == [k \in DOMAIN map \ { key } |-> map[k]]

\* ObjectWithRelations::get_children.
get_children(object) == object.children

\* Cache::traverse_down after its first test: the queue of objects still to
\* be expanded and the children of the object being expanded.
RECURSIVE traverse_queue(_, _, _, _, _)
traverse_queue(objects, queue, children, perm, ctxs) ==
  IF children # << >> THEN
    LET child == Head(children)
        rest == Remove(ctxs, child)
    IN  IF child \in DOMAIN ctxs THEN
          IF ctxs[child] > perm THEN [result |-> "Err", ctxs |-> rest]
          ELSE IF DOMAIN rest = {} THEN [result |-> "Ok(true)", ctxs |-> rest]
          ELSE traverse_queue(objects, Append(queue, child), Tail(children), perm, rest)
        ELSE traverse_queue(objects, Append(queue, child), Tail(children), perm, ctxs)
  ELSE IF queue = << >> THEN [result |-> "Ok(false)", ctxs |-> ctxs]
  ELSE LET x == Head(queue)
       IN  traverse_queue(objects, Tail(queue),
                          IF x \in DOMAIN objects THEN get_children(objects[x]) ELSE << >>,
                          perm, ctxs)

\* A traversal that stops at the children of the object it starts from.
traverse_children(objects, id, perm, ctxs) ==
  IF DOMAIN ctxs = {} THEN [result |-> "Ok(true)", ctxs |-> ctxs]
  ELSE traverse_queue([o \in DOMAIN objects \cap { id } |-> objects[o]],
                      << id >>, << >>, perm, ctxs)

\* Cache::traverse_down: the result and what is left of the map it was given.
traverse_down(objects, id, perm, ctxs) ==
  IF DOMAIN ctxs = {} THEN [result |-> "Ok(true)", ctxs |-> ctxs]
  ELSE traverse_queue(objects, << id >>, << >>, perm, ctxs)

\* A comparison that accepts the needed level only.
perm_equal(got_perm, needed_perm) == got_perm = needed_perm

\* got_perm >= needed_perm, the comparison of a permission on the resource
\* itself with the needed one.
perm_suffices(got_perm, needed_perm) == got_perm >= needed_perm

\* The second loop of Cache::check_permissions_with_contexts, from the k-th
\* permission on.
RECURSIVE check_permitted(_, _, _, _)
check_permitted(objects, permitted, k, resources) ==
  IF k > Len(permitted) THEN FALSE
  ELSE
    LET id == permitted[k][1]
        got_perm == permitted[k][2]
        direct == id \in DOMAIN resources /\ perm_suffices(got_perm, resources[id])
        left == IF direct THEN Remove(resources, id) ELSE resources
        down == traverse_down(objects, id, got_perm, left)
    IN  IF direct /\ DOMAIN left = {} THEN TRUE
        ELSE CASE down.result = "Ok(true)" -> TRUE
               [] down.result = "Ok(false)" ->
                    check_permitted(objects, permitted, k + 1, down.ctxs)
               [] down.result = "Err" -> FALSE

\* The Activated arm of Cache::check_permissions_with_contexts.
check_activated(users, user_id) ==
  IF user_id \in DOMAIN users THEN users[user_id].active ELSE FALSE

\* The User arm of Cache::check_permissions_with_contexts.
check_user(users, uid, user_id) ==
  IF uid = user_id THEN TRUE
  ELSE IF user_id \in DOMAIN users THEN ~users[user_id].service_account ELSE FALSE

\* The GlobalAdmin | GlobalProxy arm of Cache::check_permissions_with_contexts.
check_global_admin(users, user_id) ==
  IF user_id \in DOMAIN users THEN users[user_id].global_admin ELSE FALSE

\* The first loop of Cache::check_permissions_with_contexts, from the k-th
\* context on, followed by the second loop.
RECURSIVE check_contexts(_, _, _, _, _, _, _)
check_contexts(objects, users, ctxs, permitted, user_id, k, resources) ==
  IF k > Len(ctxs) THEN check_permitted(objects, permitted, 1, resources)
  ELSE
    LET ctx == ctxs[k]
    IN  CASE ctx.variant = "Activated" -> check_activated(users, user_id)
          [] ctx.variant = "Resource" ->
               check_contexts(objects, users, ctxs, permitted, user_id, k + 1,
                              Put(resources, ctx.id, ctx.perm))
          [] ctx.variant = "User" -> check_user(users, ctx.id, user_id)
          [] ctx.variant \in { "GlobalAdmin", "GlobalProxy" } ->
               check_global_admin(users, user_id)

\* Cache::check_permissions_with_contexts.
check_permissions_with_contexts(objects, users, ctxs, permitted, user_id) ==
  check_contexts(objects, users, ctxs, permitted, user_id, 1, EmptyMap)

\* The Resource arm of a check that does not look at the resource.
proxy_resource_anywhere(objects, endpoint_id, id) == TRUE

\* The Resource arm of Cache::check_proxy_ctxs.
proxy_resource(objects, endpoint_id, id) ==
  IF id \in DOMAIN objects THEN endpoint_id \in objects[id].endpoints ELSE FALSE

\* The User arm of Cache::check_proxy_ctxs.
proxy_user(users, endpoint_id, uid, permlevel) ==
  IF permlevel = READ THEN
    IF uid \in DOMAIN users THEN endpoint_id \in users[uid].trusted_endpoints ELSE FALSE
  ELSE FALSE

\* Cache::check_proxy_ctxs.
check_proxy_ctxs(objects, users, endpoint_id, ctxs) ==
  \A k \in 1..Len(ctxs) :
    LET x == ctxs[k]
    IN  CASE x.variant = "Activated" -> TRUE
          [] x.variant = "Resource" -> proxy_resource(objects, endpoint_id, x.id)
          [] x.variant = "User" -> proxy_user(users, endpoint_id, x.id, x.perm)
          [] x.variant = "GlobalAdmin" -> FALSE
          [] x.variant = "GlobalProxy" -> TRUE

\* The intents a data proxy signs a token with; None is a token without one.
ProxyActions == { "Impersonate", "FetchInfo", "CreateSecrets", "None" }

\* What TokenHandler::process_token returns for a token: the id the token
\* stands for, its permissions, whether a data proxy signed it and with
\* which intent.
Token(main_id, permissions, is_proxy, proxy_action) ==
  [main_id |-> main_id, permissions |-> permissions, is_proxy |-> is_proxy,
   proxy_action |-> proxy_action]

\* PermissionHandler::check_permissions_verbose for a token that
\* process_token accepted: "Ok" or the tonic::Status of the error.
check_permissions_verbose(objects, users, token, ctxs) ==
  LET pushed == Append(ctxs, ContextProxy)
      impersonate ==
        \A k \in 1..Len(pushed) :
          pushed[k].variant \in { "Activated", "GlobalProxy", "Resource" }
      fetch_info ==
        \A k \in 1..Len(pushed) :
          \/ pushed[k].variant \in { "Activated", "GlobalProxy" }
          \/ /\ pushed[k].variant \in { "Resource", "User" }
             /\ ~(pushed[k].perm > READ)
  IN  IF token.is_proxy THEN
        IF token.proxy_action # "None" THEN
          IF token.proxy_action = "Impersonate" /\ ~impersonate THEN "invalid_argument"
          ELSE IF token.proxy_action = "FetchInfo" /\ ~fetch_info THEN "permission_denied"
          ELSE IF check_proxy_ctxs(objects, users, token.main_id, pushed) THEN "Ok"
          ELSE "unauthenticated"
        ELSE "internal"
      ELSE IF check_permissions_with_contexts(objects, users, ctxs,
                                              token.permissions, token.main_id)
           THEN "Ok"
           ELSE "unauthenticated"

\* The users whose tokens are checked.
TokenUsers == { 11 }

\* The levels of the permissions a token carries.
GrantLevelInputs == { READ, WRITE, ADMIN }

\* The permissions a token carries: at most two, in every order.
PermittedInputs ==
  LET grant == ObjectIds \X GrantLevelInputs
  IN  { << >> } \cup { << g >> : g \in grant } \cup { << g, h >> : g, h \in grant }

\* The contexts a request is checked against.
ResourceContexts ==
  { ContextResource(id, perm) : id \in ObjectIds, perm \in PermissionLevelInputs }

UserContexts ==
  { ContextActivated, ContextGlobalAdmin } \cup
  { ContextUser(uid, perm) : uid \in UserIds, perm \in { READ, ADMIN } }

\* A new object is created below the given parents: Cache::add_object for
\* the object and Cache::update_object for each parent, which gains the
\* child.  Children are kept in the order they were added.
AddObject ==
  \E parents \in SUBSET DOMAIN object_cache :
    LET id == Cardinality(DOMAIN object_cache) + 1
        added == Put(object_cache, id, ObjectWithRelations(<< >>, {}))
    IN  /\ id <= MaxObjects
        /\ object_cache' =
             [o \in DOMAIN added |->
                IF o \in parents
                  THEN ObjectWithRelations(Append(added[o].children, id), added[o].endpoints)
                  ELSE added[o]]
        /\ auth = NoAuth
        /\ UNCHANGED << user_cache, auth, storeVars, issuerVars, codecVars, queueVars, otherVars >>

\* Cache::update_object with an object whose endpoints changed.
UpdateObject ==
  \E id \in DOMAIN object_cache, endpoints \in SUBSET HostingEndpointIds :
    /\ endpoints # object_cache[id].endpoints
    /\ object_cache' =
         [object_cache EXCEPT ![id] = ObjectWithRelations(@.children, endpoints)]
    /\ auth = NoAuth
    /\ UNCHANGED << user_cache, auth, storeVars, issuerVars, codecVars, queueVars, otherVars >>

\* Cache::update_user with a user whose active flag or attributes changed.
UpdateUser ==
  \E id \in TokenUsers, active, global_admin, service_account \in BOOLEAN :
    LET user == User(active, global_admin, service_account,
                     user_cache[id].trusted_endpoints)
    IN  /\ user # user_cache[id]
        /\ user_cache' = [user_cache EXCEPT ![id] = user]
        /\ auth = NoAuth
        /\ UNCHANGED << object_cache, auth, storeVars, issuerVars, codecVars, queueVars, otherVars >>

\* Cache::update_user with a user whose trusted endpoints changed.
TrustEndpoint ==
  \E id \in UserIds, trusted_endpoints \in SUBSET HostingEndpointIds :
    /\ trusted_endpoints # user_cache[id].trusted_endpoints
    /\ user_cache' = [user_cache EXCEPT ![id].trusted_endpoints = trusted_endpoints]
    /\ auth = NoAuth
    /\ UNCHANGED << object_cache, auth, storeVars, issuerVars, codecVars, queueVars, otherVars >>

\* The record of a check.
Checked(token, ctxs) ==
  [ctxs |-> ctxs, permitted |-> token.permissions, main_id |-> token.main_id,
   is_proxy |-> token.is_proxy, proxy_action |-> token.proxy_action,
   result |-> check_permissions_verbose(object_cache, user_cache, token, ctxs)]

\* A request with a user's token is checked against a resource context.
CheckResource ==
  \E ctx \in ResourceContexts, permitted \in PermittedInputs, user_id \in TokenUsers :
    /\ auth = NoAuth
    /\ auth' = Checked(Token(user_id, permitted, FALSE, "None"), << ctx >>)
    /\ UNCHANGED << object_cache, user_cache, storeVars, issuerVars, codecVars, queueVars, otherVars >>

\* A request with a user's token is checked against a context that is not
\* about a resource.
CheckUser ==
  \E ctx \in UserContexts, user_id \in TokenUsers :
    /\ auth = NoAuth
    /\ auth' = Checked(Token(user_id, << >>, FALSE, "None"), << ctx >>)
    /\ UNCHANGED << object_cache, user_cache, storeVars, issuerVars, codecVars, queueVars, otherVars >>

\* A request with a token a data proxy signed is checked.
CheckProxy ==
  \E ctx \in ResourceContexts \cup UserContexts, endpoint_id \in EndpointIds,
     proxy_action \in ProxyActions :
    /\ auth = NoAuth
    /\ auth' = Checked(Token(endpoint_id, << >>, TRUE, proxy_action), << ctx >>)
    /\ UNCHANGED << object_cache, user_cache, storeVars, issuerVars, codecVars, queueVars, otherVars >>

\* check_permissions_verbose returns its result to the request handler.
Respond ==
  /\ auth # NoAuth
  /\ auth' = NoAuth
  /\ UNCHANGED << object_cache, user_cache, storeVars, issuerVars, codecVars, queueVars, otherVars >>

\* The hierarchy grows and users' tokens are checked against resources.
NextCache == AddObject \/ CheckResource \/ Respond

SpecCache == Init /\ [][NextCache]_vars

\* Users change and their tokens are checked against the other contexts.
NextUser == AddObject \/ UpdateUser \/ CheckUser \/ Respond

SpecUser == Init /\ [][NextUser]_vars

NextProxy == AddObject \/ UpdateObject \/ TrustEndpoint \/ CheckProxy \/ Respond

SpecProxy == Init /\ [][NextProxy]_vars

(***************************************************************************)
(* Properties of the permission checks.                                    *)
(***************************************************************************)

\* The objects reachable from the objects of a set along child edges, the
\* objects of the set included.
RECURSIVE ReachableFrom(_, _)
ReachableFrom(objects, set) ==
  LET next ==
        set \cup
        UNION { { get_children(objects[o])[i] :
                    i \in 1..Len(get_children(objects[o])) } :
                o \in set \cap DOMAIN objects }
  IN  IF next = set THEN set ELSE ReachableFrom(objects, next)

\* The grants of a token that reach a resource: a permission on the
\* resource itself or on one of its ancestors.
Reaching(objects, permitted, id) ==
  { k \in 1..Len(permitted) : id \in ReachableFrom(objects, { permitted[k][1] }) }

\* A check of a user's token against one resource context has been made.
ResourceChecked ==
  /\ auth # NoAuth
  /\ ~auth.is_proxy
  /\ Len(auth.ctxs) = 1
  /\ auth.ctxs[1].variant = "Resource"

\* C13: when a token's grants are on different objects, all reach the
\* resource and are of different levels, the check of Resource(id, min) succeeds exactly if the highest of
\* the levels is at least min, in whatever order the token lists the grants.
C13_HighestGrantDecides ==
  (/\ ResourceChecked
   /\ Len(auth.permitted) = 2
   /\ Reaching(object_cache, auth.permitted, auth.ctxs[1].id) = { 1, 2 }
   /\ auth.permitted[1][1] # auth.permitted[2][1]
   /\ auth.permitted[1][2] # auth.permitted[2][2]) =>
    (auth.result = "Ok" <=>
       \E k \in 1..2 : auth.permitted[k][2] >= auth.ctxs[1].perm)

\* A check of a user's token that carries one permission, on object P,
\* against a context of a resource reachable from P has been made.
SingleGrantChecked ==
  /\ ResourceChecked
  /\ Len(auth.permitted) = 1
  /\ auth.ctxs[1].id \in ReachableFrom(object_cache, { auth.permitted[1][1] })

\* C14: a token whose only permission is p on object P is granted
\* Resource(X, q) for every X reachable from P along child edges, at any
\* depth, if q <= p, and is denied it if q > p.
C14_PermissionCascades ==
  SingleGrantChecked =>
    (auth.result = "Ok" <=> auth.ctxs[1].perm <= auth.permitted[1][2])

\* A grant on P was accepted for a resource that is neither P nor a child of P.
C14_Witness ==
  /\ SingleGrantChecked
  /\ auth.result = "Ok"
  /\ auth.ctxs[1].id # auth.permitted[1][1]
  /\ \A i \in 1..Len(get_children(object_cache[auth.permitted[1][1]])) :
       get_children(object_cache[auth.permitted[1][1]])[i] # auth.ctxs[1].id

\* The result of checking the token and the resource of the last check
\* against another level, in the same state of the cache.
ResultAt(perm) ==
  check_permissions_verbose(
    object_cache, user_cache,
    Token(auth.main_id, auth.permitted, auth.is_proxy, auth.proxy_action),
    << ContextResource(auth.ctxs[1].id, perm) >>)

\* C15: a token that is granted Resource(id, ADMIN) is granted
\* Resource(id, READ) in the same state.
C15_AdminImpliesRead ==
  (ResourceChecked /\ auth.ctxs[1].perm = ADMIN /\ auth.result = "Ok") =>
    ResultAt(READ) = "Ok"

\* Resource(id, ADMIN) was granted to a token whose first permission is
\* below ADMIN and whose second permission is on an ancestor of id.
C15_Witness ==
  /\ ResourceChecked
  /\ auth.ctxs[1].perm = ADMIN
  /\ auth.result = "Ok"
  /\ Len(auth.permitted) = 2
  /\ auth.permitted[1][2] = READ
  /\ auth.permitted[2][1] # auth.ctxs[1].id
  /\ ResultAt(READ) = "Ok"

\* A check of a user's token against one context of the given variant has
\* been made.
ContextChecked(variant) ==
  /\ auth # NoAuth
  /\ ~auth.is_proxy
  /\ Len(auth.ctxs) = 1
  /\ auth.ctxs[1].variant = variant

\* C16: a check against User(user_id, min) succeeds exactly if the requester
\* is that user or a global admin.
C16_UserContextSelfOrAdmin ==
  ContextChecked("User") =>
    (auth.result = "Ok" <=>
       \/ auth.main_id = auth.ctxs[1].id
       \/ user_cache[auth.main_id].global_admin)

\* C17: a check against Activated succeeds exactly if the requester's user
\* is a global admin or is active; a global admin that is not active is
\* granted.
C17_ActivatedOrAdmin ==
  ContextChecked("Activated") =>
    (auth.result = "Ok" <=>
       \/ user_cache[auth.main_id].global_admin
       \/ user_cache[auth.main_id].active)

\* A check of a token a data proxy signed against one resource context has
\* been made.
ProxyResourceChecked ==
  /\ auth # NoAuth
  /\ auth.is_proxy
  /\ Len(auth.ctxs) = 1
  /\ auth.ctxs[1].variant = "Resource"

\* C18: a request signed by a data proxy with a resource context is accepted
\* only if the resource is in the cache and its endpoints contain the
\* signing endpoint; otherwise the whole check fails.
C18_ProxyResourceAtEndpoint ==
  (ProxyResourceChecked /\ auth.result = "Ok") =>
    /\ auth.ctxs[1].id \in DOMAIN object_cache
    /\ auth.main_id \in object_cache[auth.ctxs[1].id].endpoints

\* A proxy-signed request for a resource at the signing endpoint was
\* accepted while another object of the cache is not at that endpoint.
C18_Witness ==
  /\ ProxyResourceChecked
  /\ auth.result = "Ok"
  /\ \E o \in DOMAIN object_cache : auth.main_id \notin object_cache[o].endpoints

(***************************************************************************)
(* The token issuers and their keys (src/auth/issuer_handler.rs).          *)
(***************************************************************************)

\* The minutes the clock runs for.
MaxNow == 11

\* chrono::Duration::minutes(5)
RefreshMinutes == 5

\* The key ids the OIDC issuer's endpoint comes to serve.
KeyIds == { "k1", "k2" }

\* The kid of a token's header: a key id the endpoint may serve, the
\* server's own, one no issuer ever has, or none.
KidInputs == KeyIds \cup ArunaKeys \cup { "k9", "none" }

\* A rate limit that never applies.
never_too_soon(issuer, t) == FALSE

\* refresh_jwks: self.last_updated + Duration::minutes(5) > Utc::now()
too_soon(issuer, t) == issuer.last_updated + RefreshMinutes > t

\* Issuer::refresh_jwks up to its await: the error it bails with, or "fetch"
\* when it calls fetch_jwks.
refresh_jwks(issuer, t) ==
  IF too_soon(issuer, t) THEN "Err(JWKS was updated less than 5 minutes ago)"
  ELSE IF issuer.issuer_type # "OIDC" THEN "Err(Only OIDC issuers can refresh JWKS)"
  ELSE IF ~issuer.pubkey_endpoint THEN "Err(Invalid endpoint type)"
  ELSE "fetch"

\* Issuer::find: whether a key with the key id is found.
find(issuer, kid) == kid \in issuer.decoding_keys

\* Issuer::get_validate_claims, given whether the token's signature and
\* claims are valid under the key.
get_validate_claims(valid) == IF valid THEN "Ok" ELSE "Err(invalid token)"

\* A refresh that stores the fetched keys and keeps last_updated.
fetched_issuer_keys_only(issuer, decodings_keys, last_updated) ==
  Issuer(issuer.pubkey_endpoint, decodings_keys, issuer.last_updated, issuer.issuer_type)

\* refresh_jwks after fetch_jwks returned Ok: self.decoding_keys =
\* decodings_keys; self.last_updated = last_updated
fetched_issuer(issuer, decodings_keys, last_updated) ==
  Issuer(issuer.pubkey_endpoint, decodings_keys, last_updated, issuer.issuer_type)

\* A call in progress or returned.
Call(at_pc, op, name, kid, valid, refreshes, fetches, lookups, res) ==
  [pc |-> at_pc, op |-> op, issuer |-> name, kid |-> kid, valid |-> valid,
   at |-> now, refreshes |-> refreshes, fetches |-> fetches,
   lookups |-> lookups, before |-> issuers[name], result |-> res]

\* Issuer::refresh_jwks is called: it returns an error or awaits fetch_jwks.
RefreshJwks ==
  \E name \in IssuerNames :
    LET r == refresh_jwks(issuers[name], now)
    IN  /\ call.pc = "idle"
        /\ call' = IF r = "fetch"
                     THEN Call("fetching", "refresh_jwks", name, "none", FALSE, 1, 1, 0, "none")
                     ELSE Call("done", "refresh_jwks", name, "none", FALSE, 1, 0, 0, r)
        /\ UNCHANGED << issuers, now, jwks, refreshed >>
        /\ UNCHANGED << object_cache, user_cache, auth, storeVars, codecVars, queueVars, otherVars >>

\* Issuer::check_token is called: up to its return or, when the key id is
\* not found, up to the await of fetch_jwks in refresh_jwks.
CheckToken ==
  \E name \in IssuerNames, kid \in KidInputs, valid \in BOOLEAN :
    LET r == refresh_jwks(issuers[name], now)
    IN  /\ call.pc = "idle"
        /\ call' =
             IF kid = "none"
               THEN Call("done", "check_token", name, kid, valid, 0, 0, 0,
                         "Err(No kid in header)")
             ELSE IF find(issuers[name], kid)
               THEN Call("done", "check_token", name, kid, valid, 0, 0, 1,
                         get_validate_claims(valid))
             ELSE IF r = "fetch"
               THEN Call("fetching", "check_token", name, kid, valid, 1, 1, 1, "none")
             ELSE Call("done", "check_token", name, kid, valid, 1, 0, 1, r)
        /\ UNCHANGED << issuers, now, jwks, refreshed >>
        /\ UNCHANGED << object_cache, user_cache, auth, storeVars, codecVars, queueVars, otherVars >>

\* fetch_jwks returns: with an error, or with the keys the endpoint serves
\* and the time; refresh_jwks then stores both and check_token looks the
\* key id up again.
Fetched ==
  \E ok \in BOOLEAN :
    LET name == call.issuer
        issuer == fetched_issuer(issuers[name], jwks, now)
    IN  /\ call.pc = "fetching"
        /\ IF ok
             THEN /\ issuers' = [issuers EXCEPT ![name] = issuer]
                  /\ refreshed' = Append(refreshed, << name, now >>)
                  /\ call' =
                       IF call.op = "refresh_jwks"
                         THEN [call EXCEPT !.pc = "done", !.result = "Ok"]
                       ELSE [call EXCEPT
                               !.pc = "done",
                               !.lookups = @ + 1,
                               !.result = IF find(issuer, call.kid)
                                            THEN get_validate_claims(call.valid)
                                            ELSE "Err(No matching key found)"]
             ELSE /\ call' = [call EXCEPT !.pc = "done", !.result = "Err(fetch_jwks)"]
                  /\ UNCHANGED << issuers, refreshed >>
        /\ UNCHANGED << now, jwks >>
        /\ UNCHANGED << object_cache, user_cache, auth, storeVars, codecVars, queueVars, otherVars >>

\* The call returns to its caller.
IssuerReturn ==
  /\ call.pc = "done"
  /\ call' = NoCall
  /\ UNCHANGED << issuers, now, jwks, refreshed >>
  /\ UNCHANGED << object_cache, user_cache, auth, storeVars, codecVars, queueVars, otherVars >>

\* A minute passes.
Tick ==
  /\ now < MaxNow
  /\ call.pc # "done"
  /\ now' = now + 1
  /\ UNCHANGED << issuers, jwks, call, refreshed >>
  /\ UNCHANGED << object_cache, user_cache, auth, storeVars, codecVars, queueVars, otherVars >>

\* The OIDC provider rotates the keys its endpoint serves.
RotateKeys ==
  \E keys \in SUBSET KeyIds :
    /\ keys # jwks
    /\ call.pc # "done"
    /\ jwks' = keys
    /\ UNCHANGED << issuers, now, call, refreshed >>
    /\ UNCHANGED << object_cache, user_cache, auth, storeVars, codecVars, queueVars, otherVars >>

NextIssuer ==
  RefreshJwks \/ CheckToken \/ Fetched \/ IssuerReturn \/ Tick \/ RotateKeys

SpecIssuer == Init /\ [][NextIssuer]_vars

(***************************************************************************)
(* Properties of the issuers.                                              *)
(***************************************************************************)

\* A call that asked for a refresh less than five minutes after the
\* issuer's last_updated has returned.
RefreshedTooSoon ==
  /\ call.pc = "done"
  /\ call.refreshes > 0
  /\ call.at < call.before.last_updated + RefreshMinutes

\* C19: a refresh requested less than five minutes after the issuer's
\* last_updated fails without fetching and leaves the issuer's keys and
\* last_updated as they were; any two successful refreshes of an issuer are
\* at least five minutes apart.
C19_RefreshRateLimited ==
  /\ RefreshedTooSoon =>
       /\ call.result = "Err(JWKS was updated less than 5 minutes ago)"
       /\ call.fetches = 0
       /\ issuers[call.issuer] = call.before
  /\ \A i, j \in 1..Len(refreshed) :
       (i < j /\ refreshed[i][1] = refreshed[j][1]) =>
         refreshed[j][2] - refreshed[i][2] >= RefreshMinutes

\* A refresh was refused as too soon after two refreshes of the issuer
\* had succeeded.
C19_Witness ==
  /\ RefreshedTooSoon
  /\ call.op = "refresh_jwks"
  /\ Len(refreshed) = 2
  /\ refreshed[2][1] = call.issuer

\* check_token has returned for a token whose kid the issuer did not know
\* when it was called.
UnknownKidChecked ==
  /\ call.pc = "done"
  /\ call.op = "check_token"
  /\ call.kid # "none"
  /\ ~find(call.before, call.kid)

\* C20: verifying a token whose kid the issuer does not know makes exactly
\* one refresh attempt and then looks the kid up again exactly once; if the
\* kid is still unknown the token is rejected; the verification never
\* refreshes more than once.
C20_OneRefreshOneRetry ==
  UnknownKidChecked =>
    /\ call.refreshes = 1
    /\ call.lookups = 2
    /\ call.fetches <= 1
    /\ ~find(issuers[call.issuer], call.kid) => call.result # "Ok"

\* C21: when check_token does not find the kid and the refresh is refused
\* by the five-minute limit, the caller receives the outcome of a plain
\* miss, "No matching key found", never the rate-limit error.
C21_TooSoonNeverSurfaced ==
  (UnknownKidChecked /\ RefreshedTooSoon) =>
    /\ call.result = "Err(No matching key found)"
    /\ call.result # "Err(JWKS was updated less than 5 minutes ago)"

\* C22: a key id that find once returned for an issuer is still returned
\* after every later successful refresh of the issuer.
C22_KeysOnlyAppended ==
  [][\A n \in IssuerNames, kid \in KeyIds \cup ArunaKeys :
       find(issuers[n], kid) => find(issuers'[n], kid)]_vars

(***************************************************************************)
(* Properties of the relations and of the write handlers.                  *)
(***************************************************************************)

\* The edges of a graph from a source to a target with an edge type of a set,
\* by their position in the graph.
EdgesBetween(g, source, target, types) ==
  { k \in 1..Len(g.edges) :
      /\ g.edges[k].source = source
      /\ g.edges[k].target = target
      /\ g.edges[k].edge_type \in types }

\* C23: when no transaction is open, and none has failed, there is at most
\* one permission edge (edge types 2..6) from a source to a target.
C23_OnePermissionEdge ==
  (Quiescent /\ ~ghost.dropped) =>
    \A source, target \in 0..(node_count(graph) - 1) :
      Cardinality(EdgesBetween(graph, source, target,
                               PERMISSION_NONE..PERMISSION_ADMIN)) <= 1

(***************************************************************************)
(* A store that holds two projects and an object, and write transactions   *)
(* that call Store::create_relation between them.                          *)
(***************************************************************************)

\* constants::const_relations: the idx of the twelve RelationInfo records,
\* in the order of the array.
const_relations ==
  << [idx |-> HAS_PART], [idx |-> 1], [idx |-> PERMISSION_NONE],
     [idx |-> 3], [idx |-> 4], [idx |-> 5], [idx |-> 6], [idx |-> 7],
     [idx |-> 8], [idx |-> 9], [idx |-> 10], [idx |-> 11] >>

\* init::init_relations: every record is put under its idx.
RECURSIVE init_relations(_, _)
init_relations(db, k) ==
  IF k > Len(const_relations) THEN db
  ELSE init_relations(Put(db, const_relations[k].idx, const_relations[k]), k + 1)

\* The relation_infos sub-database after Store::new.
relation_infos == init_relations(EmptyMap, 1)

\* The edge types create_relation is called with: HasPart, a permission and
\* the first u32 that is no idx of const_relations.
EdgeTypeInputs == { HAS_PART, PERMISSION_READ, Len(const_relations) }

ResourceDocuments ==
  InitDocuments @@
  (2 :> [id |-> Ulid(2), variant |-> "ResourceProject"]) @@
  (3 :> [id |-> Ulid(3), variant |-> "ResourceProject"]) @@
  (4 :> [id |-> Ulid(4), variant |-> "ResourceObject"])

\* The idx of the resources.
ResourceIdx ==
  { i \in DOMAIN ResourceDocuments :
      ResourceDocuments[i].variant \in
        { "ResourceProject", "ResourceFolder", "ResourceObject" } }

InitResource ==
  /\ documents = ResourceDocuments
  /\ relations = InitRelations
  /\ events = { << i, InitEventId >> : i \in DOMAIN ResourceDocuments }
  /\ read_permissions = EmptyMap
  /\ wtxn = NoTxn
  /\ graph = StoreNew(ResourceDocuments, InitRelations)
  /\ pc = [w \in Writers |-> "idle"]
  /\ req = [w \in Writers |-> NoReq]
  /\ loc = [w \in Writers |-> NoLoc]
  /\ result = [w \in Writers |-> NoResult]
  /\ clock = 1
  /\ ulidCtr = Cardinality(DOMAIN ResourceDocuments)
  /\ reqCtr = 0
  /\ rpc = [r \in Readers |-> "idle"]
  /\ rtxn = [r \in Readers |-> NoSnapshot]
  /\ rreq = [r \in Readers |-> NoUlid]
  /\ robs = [r \in Readers |-> NoObservation]
  /\ rres = [r \in Readers |-> NoRequester]
  /\ crashes = 0
  /\ ghost = [begin |-> NoBegin,
              committedNodes |-> Cardinality(DOMAIN ResourceDocuments),
              committedEids |-> { InitEventId },
              committedRels |-> { InitRelations[x] : x \in DOMAIN InitRelations },
              dropped |-> FALSE,
              fresh |-> FALSE,
              midTxn |-> FALSE]
  /\ ServerInit

\* A write transaction that calls Store::create_relation once and commits:
\* store.write_txn(), store.create_relation(&mut wtxn, source, target,
\* edge_type), wtxn.commit().
WriteRelation ==
  \E w \in Writers, source \in ResourceIdx, target \in ResourceIdx,
     edge_type \in EdgeTypeInputs :
    LET out == create_relation(write_txn(w), graph, source, target, edge_type, "none")
    IN  /\ reqCtr < MaxRequests
        /\ write_txn_available
        /\ source # target
        /\ out.status = "ok"
        /\ reqCtr' = reqCtr + 1
        /\ relations' = out.txn.relations
        /\ graph' = out.graph
        /\ ghost' = [ghost EXCEPT
             !.committedRels = @ \cup { RawRelation(source, target, edge_type) }]
        /\ UNCHANGED << documents, events, read_permissions, wtxn, pc, req, loc,
                        result, clock, ulidCtr, readerVars, crashes >>
        /\ UNCHANGED serverVars

SpecResource == InitResource /\ [][WriteRelation]_vars

\* The edges of a graph into a target with an edge type of a set.
EdgesInto(g, target, types) ==
  { k \in 1..Len(g.edges) :
      g.edges[k].target = target /\ g.edges[k].edge_type \in types }

\* C24: every resource has at most one incoming HasPart edge, in the graph
\* and in the relations sub-database: a write that would add a second one
\* changes neither.
C24_OneIncomingHasPart ==
  \A target \in ResourceIdx :
    /\ Cardinality(EdgesInto(graph, target, { HAS_PART })) <= 1
    /\ Cardinality({ s \in DOMAIN relations :
                       /\ relations[s].target = target
                       /\ relations[s].edge_type = HAS_PART }) <= 1

\* C25: relation_infos holds one record for each edge type id 0..11 under
\* its idx, and no edge of the graph and no record of the relations
\* sub-database has an edge type without a record in relation_infos.
C25_EdgeTypesHaveRelationInfo ==
  /\ DOMAIN relation_infos = 0..11
  /\ \A i \in DOMAIN relation_infos : relation_infos[i].idx = i
  /\ \A r \in Edges(graph) \cup Records(relations) :
       r.edge_type \in DOMAIN relation_infos

\* The step in which the write transaction of a request of the given kind
\* commits.
RequestCommits(w, kind) ==
  /\ pc[w] = "commit"
  /\ pc'[w] = "done"
  /\ result'[w].status = "ok"
  /\ req[w].kind = kind

\* C26: a CreateGroup of registered user U that commits has added exactly
\* one vertex, the Group G of the request, and exactly one edge,
\* U -PermissionAdmin-> G; read_group_perms[G] is {G}; the events recorded
\* are the transaction's event id for U and for G; the handler returns ok.
C26_CreateGroupEffect ==
  [][\A w \in Writers :
       RequestCommits(w, "CreateGroup") =>
         LET U == loc[w].user_idx
             G == loc[w].group_idx
         IN  /\ documents[U].id = req[w].requester
             /\ node_count(graph') = ghost.begin.nodes + 1
             /\ G = ghost.begin.nodes
             /\ node_weight(graph', G) = "Group"
             /\ DOMAIN documents' = ghost.begin.docs \cup { G }
             /\ documents'[G] = [id |-> req[w].id, variant |-> "Group"]
             /\ Len(graph'.edges) = ghost.begin.edges + 1
             /\ graph'.edges[Len(graph'.edges)] = RawRelation(U, G, PERMISSION_ADMIN)
             /\ relations'[U] = RawRelation(U, G, PERMISSION_ADMIN)
             /\ read_permissions'[G] = { G }
             /\ { << U, loc[w].event_id >>, << G, loc[w].event_id >> } \subseteq events'
             /\ events' \ events \subseteq
                  { << U, loc[w].event_id >>, << G, loc[w].event_id >> }
    ]_vars

\* A CreateGroup has committed: its handler is done with ok and the store
\* holds a group with its read permission universe.
C26_Witness ==
  \E w \in Writers :
    /\ pc[w] = "done"
    /\ result[w].status = "ok"
    /\ \E G \in DOMAIN documents :
         /\ documents[G].variant = "Group"
         /\ G \in DOMAIN read_permissions
         /\ read_permissions[G] = { G }
         /\ RawRelation(0, G, PERMISSION_ADMIN) \in Edges(graph)

InitExceptCodec ==
  /\ documents = InitDocuments
  /\ relations = InitRelations
  /\ events = InitEvents
  /\ read_permissions = EmptyMap
  /\ wtxn = NoTxn
  /\ graph = StoreNew(InitDocuments, InitRelations)
  /\ pc = [w \in Writers |-> "idle"]
  /\ req = [w \in Writers |-> NoReq]
  /\ loc = [w \in Writers |-> NoLoc]
  /\ result = [w \in Writers |-> NoResult]
  /\ clock = 1
  /\ ulidCtr = Cardinality(DOMAIN InitDocuments)
  /\ reqCtr = 0
  /\ rpc = [r \in Readers |-> "idle"]
  /\ rtxn = [r \in Readers |-> NoSnapshot]
  /\ rreq = [r \in Readers |-> NoUlid]
  /\ robs = [r \in Readers |-> NoObservation]
  /\ rres = [r \in Readers |-> NoRequester]
  /\ crashes = 0
  /\ ghost = [begin |-> NoBegin,
              committedNodes |-> Cardinality(DOMAIN InitDocuments),
              committedEids |-> { InitEventId },
              committedRels |-> { InitRelations[s] : s \in DOMAIN InitRelations },
              dropped |-> FALSE,
              fresh |-> FALSE,
              midTxn |-> FALSE]
  /\ object_cache = EmptyMap
  /\ user_cache = [u \in UserIds |-> User(TRUE, FALSE, FALSE, {})]
  /\ auth = NoAuth
  /\ now = 0
  /\ jwks = InitJwks
  /\ issuers = [n \in IssuerNames |->
                  IF n = "oidc" THEN new_with_endpoint(InitJwks, 0)
                  ELSE new_with_keys(ArunaKeys, "ARUNA", 0)]
  /\ call = NoCall
  /\ refreshed = << >>
  /\ waiting = << >>
  /\ OtherInit

\* A Permission and a u32 are drawn; nothing has been converted yet.
InitPermission ==
  /\ InitExceptCodec
  /\ \E p \in Permission, value \in U32Inputs :
       conv = [done |-> {}, p |-> p, value |-> value,
               as_u32 |-> 0, back |-> "None", from |-> "None"]

\* `p as u32`
AsU32 ==
  /\ "as_u32" \notin conv.done
  /\ conv' = [conv EXCEPT !.as_u32 = permission_as_u32(conv.p),
                          !.done = @ \cup { "as_u32" }]
  /\ UNCHANGED << storeVars, object_cache, user_cache, auth, issuerVars, queueVars, otherVars >>

\* Permission::try_from(p as u32)
TryFromAsU32 ==
  /\ "as_u32" \in conv.done
  /\ "back" \notin conv.done
  /\ conv' = [conv EXCEPT !.back = permission_try_from(conv.as_u32),
                          !.done = @ \cup { "back" }]
  /\ UNCHANGED << storeVars, object_cache, user_cache, auth, issuerVars, queueVars, otherVars >>

\* Permission::try_from(value)
TryFrom ==
  /\ "try_from" \notin conv.done
  /\ conv' = [conv EXCEPT !.from = permission_try_from(conv.value),
                          !.done = @ \cup { "try_from" }]
  /\ UNCHANGED << storeVars, object_cache, user_cache, auth, issuerVars, queueVars, otherVars >>

NextPermission == AsU32 \/ TryFromAsU32 \/ TryFrom

SpecPermission == InitPermission /\ [][NextPermission]_vars

\* C28: Permission::try_from(p as u32) is p; p as u32 is the id of the
\* permission edge type of the same name (None 2, Read 3, Append 4, Write 5,
\* Admin 6); try_from of a u32 that is no Permission's value is a
\* ConversionError, and of a Permission's value is that Permission.
C28_PermissionRoundTrip ==
  /\ "back" \in conv.done => conv.back = conv.p
  /\ "as_u32" \in conv.done =>
       /\ conv.p = "None" => conv.as_u32 = PERMISSION_NONE /\ conv.as_u32 = 2
       /\ conv.p = "Read" => conv.as_u32 = PERMISSION_READ /\ conv.as_u32 = 3
       /\ conv.p = "Append" => conv.as_u32 = PERMISSION_APPEND /\ conv.as_u32 = 4
       /\ conv.p = "Write" => conv.as_u32 = PERMISSION_WRITE /\ conv.as_u32 = 5
       /\ conv.p = "Admin" => conv.as_u32 = PERMISSION_ADMIN /\ conv.as_u32 = 6
  /\ "try_from" \in conv.done =>
       IF \E q \in Permission : permission_as_u32(q) = conv.value
         THEN conv.from \in Permission /\ permission_as_u32(conv.from) = conv.value
         ELSE conv.from = "ConversionError"

\* Admin has gone to u32 and back, and a u32 that is no Permission's value
\* has been converted.
C28_Witness ==
  /\ { "as_u32", "back", "try_from" } \subseteq conv.done
  /\ conv.p = "Admin"
  /\ conv.back = "Admin"
  /\ conv.value = 7
  /\ conv.from = "ConversionError"

(***************************************************************************)
(* The node codec: TryFrom<T> for serde_json::Map, the document written by *)
(* Store::create_node, and TryFrom<&KvReaderU16> for each node (models.rs). *)
(***************************************************************************)
\* constants::FIELDS, the milli index's internal field ids.
FIELDS ==
  << [name |-> "id", index |-> 0], [name |-> "variant", index |-> 1],
     [name |-> "name", index |-> 2], [name |-> "description", index |-> 3],
     [name |-> "labels", index |-> 4], [name |-> "identifiers", index |-> 5],
     [name |-> "content_len", index |-> 6], [name |-> "count", index |-> 7],
     [name |-> "visibility", index |-> 8], [name |-> "created_at", index |-> 9],
     [name |-> "last_modified", index |-> 10], [name |-> "authors", index |-> 11],
     [name |-> "locked", index |-> 12], [name |-> "license", index |-> 13],
     [name |-> "hashes", index |-> 14], [name |-> "location", index |-> 15],
     [name |-> "tags", index |-> 16], [name |-> "expires_at", index |-> 17],
     [name |-> "first_name", index |-> 18], [name |-> "last_name", index |-> 19],
     [name |-> "email", index |-> 20], [name |-> "global_admin", index |-> 21],
     [name |-> "tag", index |-> 22] >>

\* The keys of a node's JSON object that FIELDS does not name, in the
\* object's key order.
UnlistedFields == << "license_tag", "revision", "title" >>

\* The field id the index gives to a key of a document: the index of FIELDS
\* for the names prepopulate_fields registered, the next free id for a name
\* first seen in a document.
field_id(name) ==
  IF \E k \in 1..Len(FIELDS) : FIELDS[k].name = name
    THEN FIELDS[CHOOSE k \in 1..Len(FIELDS) : FIELDS[k].name = name].index
    ELSE Len(FIELDS) + (CHOOSE k \in 1..Len(UnlistedFields) : UnlistedFields[k] = name) - 1

\* `variant as u64` of enum NodeVariant.
node_variant_as_u64(variant) ==
  CASE variant = "ResourceProject" -> 0
    [] variant = "ResourceFolder" -> 1
    [] variant = "ResourceObject" -> 2
    [] variant = "User" -> 3
    [] variant = "Token" -> 4
    [] variant = "ServiceAccount" -> 5
    [] variant = "Group" -> 6
    [] variant = "Realm" -> 7

\* into_serde_json_map(value, variant): the struct's fields by name, then
\* map.insert("variant", Number(variant as u64)).
into_serde_json_map(value, variant) ==
  [f \in (DOMAIN value) \cup { "variant" } |->
     IF f = "variant" THEN node_variant_as_u64(variant) ELSE value[f]]

\* TryFrom<T> for serde_json::Map<String, Value>, for each node type.
node_try_into(kind, node) ==
  IF kind = "Resource"
    THEN CASE node.variant = "Project" -> into_serde_json_map(node, "ResourceProject")
           [] node.variant = "Folder" -> into_serde_json_map(node, "ResourceFolder")
           [] node.variant = "Object" -> into_serde_json_map(node, "ResourceObject")
    ELSE into_serde_json_map(node, kind)

\* The document Store::create_node writes for a JSON object
\* (documents_batch.append_json_object, builder.add_documents): field id ->
\* value.
obkv_of(map) ==
  [i \in { field_id(f) : f \in DOMAIN map } |->
     map[CHOOSE f \in DOMAIN map : field_id(f) = i]]

\* FieldIterator::get_field: the field's value, the type's default when the
\* record has no such field.
get_field(obkv, i, default) == IF i \in DOMAIN obkv THEN obkv[i] ELSE default

ParseError == [ok |-> FALSE]
Parsed(node) == [ok |-> TRUE, node |-> node]

\* The ResourceVariant read from field 1, "none" for a number that is no
\* resource's NodeVariant.
resource_variant(n) ==
  CASE n = 0 -> "Project"
    [] n = 1 -> "Folder"
    [] n = 2 -> "Object"
    [] OTHER -> "none"

\* TryFrom<&KvReaderU16> for Resource
resource_try_from(obkv) ==
  IF ~({0, 1, 2} \subseteq DOMAIN obkv) \/ resource_variant(obkv[1]) = "none"
    THEN ParseError
    ELSE Parsed(
      [id |-> obkv[0],
       variant |-> resource_variant(obkv[1]),
       name |-> obkv[2],
       description |-> get_field(obkv, 3, ""),
       revision |-> 0,
       labels |-> get_field(obkv, 4, << >>),
       identifiers |-> get_field(obkv, 5, << >>),
       content_len |-> get_field(obkv, 6, 0),
       count |-> get_field(obkv, 7, 0),
       visibility |-> get_field(obkv, 8, "Private"),
       created_at |-> get_field(obkv, 9, 0),
       last_modified |-> get_field(obkv, 10, 0),
       authors |-> get_field(obkv, 11, << >>),
       locked |-> get_field(obkv, 12, FALSE),
       license_tag |-> get_field(obkv, 13, ""),
       hashes |-> get_field(obkv, 14, << >>),
       location |-> get_field(obkv, 15, << >>),
       title |-> get_field(obkv, 22, "")])

\* TryFrom<&KvReaderU16> for User
user_try_from(obkv) ==
  IF ~({0, 1} \subseteq DOMAIN obkv) THEN ParseError
  ELSE IF obkv[1] # node_variant_as_u64("User") THEN ParseError
  ELSE IF ~({18, 19, 20} \subseteq DOMAIN obkv) THEN ParseError
  ELSE Parsed(
    [id |-> obkv[0],
     identifiers |-> get_field(obkv, 5, ""),
     first_name |-> obkv[18],
     last_name |-> obkv[19],
     email |-> obkv[20],
     global_admin |-> get_field(obkv, 21, FALSE)])

\* TryFrom<&KvReaderU16> for Token
token_try_from(obkv) ==
  IF ~({0, 1} \subseteq DOMAIN obkv) THEN ParseError
  ELSE IF obkv[1] # node_variant_as_u64("Token") THEN ParseError
  ELSE Parsed(
    [id |-> obkv[0],
     name |-> get_field(obkv, 2, ""),
     expires_at |-> get_field(obkv, 17, 0)])

\* TryFrom<&KvReaderU16> for ServiceAccount
service_account_try_from(obkv) ==
  IF ~({0, 1} \subseteq DOMAIN obkv) THEN ParseError
  ELSE IF obkv[1] # node_variant_as_u64("ServiceAccount") THEN ParseError
  ELSE Parsed([id |-> obkv[0], name |-> get_field(obkv, 2, "")])

\* TryFrom<&KvReaderU16> for Group
group_try_from(obkv) ==
  IF ~({0, 1} \subseteq DOMAIN obkv) THEN ParseError
  ELSE IF obkv[1] # node_variant_as_u64("Group") THEN ParseError
  ELSE IF 2 \notin DOMAIN obkv THEN ParseError
  ELSE Parsed(
    [id |-> obkv[0],
     name |-> obkv[2],
     description |-> get_field(obkv, 3, "")])

\* TryFrom<&KvReaderU16> for Realm
realm_try_from(obkv) ==
  IF ~({0, 1} \subseteq DOMAIN obkv) THEN ParseError
  ELSE IF obkv[1] # node_variant_as_u64("Realm") THEN ParseError
  ELSE IF 2 \notin DOMAIN obkv THEN ParseError
  ELSE Parsed(
    [id |-> obkv[0],
     name |-> obkv[2],
     description |-> get_field(obkv, 3, ""),
     tag |-> get_field(obkv, 22, "")])

\* T::try_from(&obkv) for the node type read.
node_try_from(kind, obkv) ==
  CASE kind = "Resource" -> resource_try_from(obkv)
    [] kind = "User" -> user_try_from(obkv)
    [] kind = "Token" -> token_try_from(obkv)
    [] kind = "ServiceAccount" -> service_account_try_from(obkv)
    [] kind = "Group" -> group_try_from(obkv)
    [] kind = "Realm" -> realm_try_from(obkv)

\* The nodes stored in the model, by type.
Resources ==
  { [id |-> Ulid(5), name |-> "n", title |-> title, description |-> "d",
     revision |-> revision, variant |-> variant, labels |-> labels,
     identifiers |-> << "doi" >>, content_len |-> 1, count |-> 1,
     visibility |-> "Public", created_at |-> 1, last_modified |-> 2,
     authors |-> << >>, license_tag |-> license_tag, locked |-> locked,
     location |-> << >>, hashes |-> << >>] :
      title \in { "", "t" }, revision \in { 0, 1 },
      variant \in { "Project", "Folder", "Object" },
      labels \in { << >>, << [key |-> "k", value |-> "v", locked |-> FALSE] >> },
      license_tag \in { "", "mit" }, locked \in BOOLEAN }

Users ==
  { [id |-> Ulid(5), first_name |-> "f", last_name |-> "l", email |-> "e",
     identifiers |-> identifiers, global_admin |-> global_admin] :
      identifiers \in { "", "orcid" }, global_admin \in BOOLEAN }

Tokens == { [id |-> Ulid(5), name |-> name, expires_at |-> 3] : name \in { "", "n" } }

ServiceAccounts == { [id |-> Ulid(5), name |-> name] : name \in { "", "n" } }

Groups ==
  { [id |-> Ulid(5), name |-> "n", description |-> description] :
      description \in { "", "d" } }

Realms ==
  { [id |-> Ulid(5), tag |-> tag, name |-> "n", description |-> description] :
      tag \in { "", "eu" }, description \in { "", "d" } }

NodeKinds == { "Resource", "User", "Token", "ServiceAccount", "Group", "Realm" }

NodesOf(kind) ==
  CASE kind = "Resource" -> Resources
    [] kind = "User" -> Users
    [] kind = "Token" -> Tokens
    [] kind = "ServiceAccount" -> ServiceAccounts
    [] kind = "Group" -> Groups
    [] kind = "Realm" -> Realms

\* A node is drawn; nothing has been stored yet.
InitFields ==
  /\ InitExceptCodec
  /\ \E kind \in NodeKinds : \E node \in NodesOf(kind) :
       conv = [done |-> {}, kind |-> kind, node |-> node,
               obkv |-> EmptyMap, decoded |-> ParseError]

\* Store::create_node: the document written for node.try_into()
StoreNode ==
  /\ "stored" \notin conv.done
  /\ conv' = [conv EXCEPT !.obkv = obkv_of(node_try_into(conv.kind, conv.node)),
                          !.done = @ \cup { "stored" }]
  /\ UNCHANGED << storeVars, object_cache, user_cache, auth, issuerVars, queueVars, otherVars >>

\* T::try_from(&obkv) on the stored document
DecodeNode ==
  /\ "stored" \in conv.done
  /\ "decoded" \notin conv.done
  /\ conv' = [conv EXCEPT !.decoded = node_try_from(conv.kind, conv.obkv),
                          !.done = @ \cup { "decoded" }]
  /\ UNCHANGED << storeVars, object_cache, user_cache, auth, issuerVars, queueVars, otherVars >>

NextFields == StoreNode \/ DecodeNode

SpecFields == InitFields /\ [][NextFields]_vars

\* C29: a node stored through create_node and decoded with its TryFrom is
\* the node that was stored, equal to it in every field.
C29_NodeRoundTrip ==
  "decoded" \in conv.done =>
    /\ conv.decoded.ok
    /\ conv.decoded.node = conv.node

(***************************************************************************)
(* Handlers contending for the write transaction (Store::write_txn).       *)
(***************************************************************************)
\* The handler's thread enters store.write_txn(): heed's write_txn, which
\* returns once the environment's writer lock is taken.
CallWriteTxn(w) ==
  /\ pc[w] = "write_txn"
  /\ \A k \in 1..Len(waiting) : waiting[k] # w
  /\ waiting' = Append(waiting, w)
  /\ UNCHANGED << storeVars, object_cache, user_cache, auth, issuerVars, codecVars, otherVars >>

\* store.write_txn() returns to one of the handlers inside it; nothing in
\* Store::write_txn or in execute orders the handlers that wait.
WriteTxnReturns(w) ==
  /\ \E k \in 1..Len(waiting) : waiting[k] = w
  /\ Obtained(w)
  /\ waiting' = SelectSeq(waiting, LAMBDA x : x # w)
  /\ UNCHANGED << object_cache, user_cache, auth, issuerVars, codecVars, otherVars >>

QueueNext(w) ==
  \/ RunCreateGroup(w)
  \/ RunAddUser(w)
  \/ CallWriteTxn(w)
  \/ WriteTxnReturns(w)
  \/ CreateNode(w)
  \/ CreateRelation(w)
  \/ AddReadPermissionUniverse(w)
  \/ Commit(w)
  \/ Return(w)

NextQueue == \E w \in Writers : QueueNext(w)

SpecQueue == Init /\ [][NextQueue]_vars

\* C30: the write transaction goes to the handlers in the order of their
\* calls of write_txn(): the handler that obtains it is the one that has
\* been inside write_txn() longest.
C30_WritersServedInOrder ==
  [][Len(waiting') < Len(waiting) => waiting' = Tail(waiting)]_vars

(***************************************************************************)
(* Store.graph is a std::sync::RwLock: graph.write() in create_node and    *)
(* create_relation returns only when no read guard is held; a read guard   *)
(* is held by get_requester_from_token_id from graph.read() to its return. *)
(***************************************************************************)
\* Some reader holds the read guard of Store.graph: it has passed
\* self.graph.read() and has not returned.
graph_read_held == \E r \in Readers : rpc[r] = "done" /\ robs[r].taken

\* store.create_node with its self.graph.write()
CreateNodeLocked(w) ==
  /\ ~graph_read_held
  /\ CreateNode(w)

\* store.create_relation with its self.graph.write()
CreateRelationLocked(w) ==
  /\ ~graph_read_held
  /\ CreateRelation(w)

LockedWriterNext(w) ==
  \/ RunCreateGroup(w)
  \/ RunAddUser(w)
  \/ WriteTxn(w)
  \/ CreateNodeLocked(w)
  \/ CreateRelationLocked(w)
  \/ AddReadPermissionUniverse(w)
  \/ Commit(w)
  \/ Return(w)

NextLocked ==
  \/ \E w \in ReadWriters : LockedWriterNext(w)
  \/ \E r \in Readers : ReaderNext(r)

SpecLocked == Init /\ [][NextLocked]_vars

\* C31: a writer at create_node or create_relation can always take its step,
\* whatever the readers hold, and a reader can always open its read
\* transaction and take the graph read guard, whatever the writer holds.
C31_ReadersAndWritersNeverWait ==
  /\ \A w \in ReadWriters :
       /\ (wtxn.owner = w /\ pc[w] = "create_node") => ENABLED CreateNodeLocked(w)
       /\ (wtxn.owner = w /\ pc[w] = "create_relation") => ENABLED CreateRelationLocked(w)
       /\ (wtxn.owner = w /\ pc[w] = "commit") => ENABLED Commit(w)
  /\ \A r \in Readers :
       /\ rpc[r] = "idle" => ENABLED ReadTxn(r)
       /\ rpc[r] = "read_txn" => ENABLED GraphRead(r)

(***************************************************************************)
(* Write requests of a requester without a registered user id.             *)
(***************************************************************************)
\* Requester::Unregistered: the token was verified, no user is registered
\* for its subject.
RequesterUnregistered ==
  [kind |-> "Unregistered", id |-> NoUlid, token_id |-> NoUlid, group_id |-> NoUlid]

\* Requester::get_id that takes the subject of an unregistered requester for
\* the first user.
get_id_of_subject(requester) ==
  IF requester.kind \in { "User", "ServiceAccount" } THEN requester.id ELSE Ulid(0)

\* Requester::get_id: Some(id) for a user or a service account, None
\* (NoUlid) otherwise.
get_id(requester) ==
  IF requester.kind \in { "User", "ServiceAccount" } THEN requester.id ELSE NoUlid

\* The kinds of write request whose execute starts with authorize and
\* requester.get_id().ok_or_else(Forbidden("Unregistered")).
UserOnlyKinds == { "CreateGroup", "UserAccessGroup" }

\* run_request and execute of a CreateGroup or UserAccessGroup request whose
\* requester is unregistered: execute returns at requester.get_id(), before
\* store.write_txn().
RunUnregistered(w) ==
  /\ pc[w] = "idle"
  /\ reqCtr < MaxRequests
  /\ \E kind \in UserOnlyKinds, ms \in {clock, clock + 1}, random \in UlidRandom :
       LET requester_id == get_id(RequesterUnregistered)
       IN  /\ IF requester_id = NoUlid
                THEN /\ req' = [req EXCEPT ![w] = [NoReq EXCEPT !.kind = kind]]
                     /\ pc' = [pc EXCEPT ![w] = "done"]
                     /\ result' = [result EXCEPT ![w] = Outcome("Forbidden")]
                     /\ UNCHANGED loc
                ELSE Started(w, [NoReq EXCEPT !.kind = "CreateGroup",
                                             !.requester = requester_id,
                                             !.id = Ulid(ulidCtr)],
                             UlidNew(ms, random))
           /\ clock' = ms
           /\ ulidCtr' = IF kind = "CreateGroup" THEN ulidCtr + 1 ELSE ulidCtr
  /\ reqCtr' = reqCtr + 1
  /\ UNCHANGED << kvVars, wtxn, graph, readerVars, crashes, ghost >>
  /\ UNCHANGED serverVars

NextUnregistered ==
  \/ \E w \in Writers : WriterNext(w)
  \/ \E w \in Writers : RunUnregistered(w)

SpecUnregistered == Init /\ [][NextUnregistered]_vars

\* C32: a CreateGroup or UserAccessGroup request of an unregistered requester
\* ends with Forbidden in the step that takes it up: the handler never
\* reaches store.write_txn(), and the key-value store, the graph, the event
\* log and the open write transaction of another handler are unchanged.
C32_UnregisteredForbidden ==
  [][\A w \in Writers :
       RunUnregistered(w) =>
         /\ pc'[w] = "done"
         /\ result'[w].status = "Forbidden"
         /\ wtxn' = wtxn
         /\ graph' = graph
         /\ documents' = documents
         /\ relations' = relations
         /\ events' = events
         /\ read_permissions' = read_permissions
    ]_vars

\* A UserAccessGroup of an unregistered requester was refused while another
\* handler's write transaction was open.
C32_Witness ==
  \E w \in Writers :
    /\ pc[w] = "done"
    /\ result[w].status = "Forbidden"
    /\ req[w].kind = "UserAccessGroup"
    /\ req[w].requester = NoUlid
    /\ wtxn.owner \notin { "none", w }

(***************************************************************************)
(* Startup: init_issuers (storage/init.rs).                                *)
(***************************************************************************)
\* The key configurations (serial, public key) a process is started with.
KeyConfigInputs ==
  { [serial |-> serial, pubkey |-> pubkey] : serial \in { 1, 2 }, pubkey \in { "a", "b" } }

\* IssuerKey of the server for a key configuration.
IssuerKey(config) ==
  [key_id |-> config.serial, issuer_name |-> "aruna", issuer_endpoint |-> "None",
   issuer_type |-> "SERVER", decoding_key |-> config.pubkey,
   x25519_pubkey |-> config.pubkey, audiences |-> << "aruna" >>]

\* Vec::contains
contains(keys, key) == \E k \in 1..Len(keys) : keys[k] = key

\* init_issuers that puts the current key alone whatever is stored.
init_issuers_rewrite(stored, config) ==
  [some |-> TRUE, keys |-> << IssuerKey(config) >>]

\* init_issuers(write_txn, key_config, single_entry_db): the value under
\* ISSUER_KEYS after the call.
init_issuers(stored, config) ==
  LET current_aruna_issuer_key == IssuerKey(config)
  IN  IF stored.some /\ contains(stored.keys, current_aruna_issuer_key)
        THEN stored
      ELSE IF stored.some
        THEN [some |-> TRUE, keys |-> Append(stored.keys, current_aruna_issuer_key)]
      ELSE [some |-> TRUE, keys |-> << current_aruna_issuer_key >>]

\* The process is started (again) with a key configuration.
Startup ==
  /\ \E config \in KeyConfigInputs :
       /\ key_config' = config
       /\ issuer_keys' = init_issuers(issuer_keys, config)
  /\ UNCHANGED << storeVars, object_cache, user_cache, auth, issuerVars, codecVars,
                  queueVars, syncVars >>

SpecStartup == Init /\ [][Startup]_vars

Count(keys, key) == Cardinality({ k \in 1..Len(keys) : keys[k] = key })

\* C33: after a startup the persisted list holds the current server key
\* exactly once; a startup with a key already in the list leaves the list
\* as it was, and a startup with a new key appends it, the keys persisted
\* before staying in their order.
C33_IssuerKeysAppendOnly ==
  [][LET current == IssuerKey(key_config')
     IN  /\ issuer_keys'.some
         /\ Count(issuer_keys'.keys, current) = 1
         /\ contains(issuer_keys.keys, current) => issuer_keys' = issuer_keys
         /\ ~contains(issuer_keys.keys, current) =>
              issuer_keys'.keys = Append(issuer_keys.keys, current)
         /\ SubSeq(issuer_keys'.keys, 1, Len(issuer_keys.keys)) = issuer_keys.keys
    ]_startupVars

\* The process has been started with three keys and then again with the
\* first of them: the list holds the three keys in the order of their first
\* use.
C33_Witness ==
  /\ Len(issuer_keys.keys) = 3
  /\ key_config = [serial |-> 1, pubkey |-> "a"]
  /\ issuer_keys.keys[1] = IssuerKey(key_config)

(***************************************************************************)
(* The responses of the write handlers (transactions/group.rs).            *)
(***************************************************************************)
\* CreateGroupResponse { group }
CreateGroupResponse(group) == [group |-> group]

\* AddUserResponse {}
AddUserResponse == [f \in {} |-> NoUlid]

\* The value a handler serializes after wtxn.commit(..) returned Ok.
response(r) ==
  IF r.kind = "CreateGroup"
    THEN CreateGroupResponse([id |-> r.id, variant |-> "Group"])
    ELSE AddUserResponse

\* C34: the response of a write request that commits carries the event id
\* the transaction was committed with.
C34_ResponseCarriesEventId ==
  [][\A w \in Writers :
       (RequestCommits(w, "CreateGroup") \/ RequestCommits(w, "AddUser")) =>
         /\ "event_id" \in DOMAIN response(req[w])
         /\ response(req[w]).event_id = loc[w].event_id
    ]_vars

(***************************************************************************)
(* The paths from an object up to its projects: Cache::upstream_dfs_       *)
(* iterative and Cache::upstream_dfs_recursive (src/src/caching/cache.rs). *)
(***************************************************************************)
\* The objects of a hierarchy, parents before children.
MaxHierarchy == 4
HierarchyIds == 1..MaxHierarchy

\* ObjectType of the objects drawn.
ObjectTypeInputs == { "PROJECT", "COLLECTION" }

\* ObjectMapping::PROJECT(id), ::COLLECTION(id), ::DATASET(id), ::OBJECT(id)
ObjectMapping(object_type, id) == [object_type |-> object_type, id |-> id]

\* An object of the cache as the traversals read it: object.object_type and
\* the keys of inbound_belongs_to, in the order the DashMap iterates them.
CachedObject(object_type, parents) == [object_type |-> object_type, parents |-> parents]

\* ObjectWithRelations::get_parents
get_parents(object) == object.parents

\* The sequences without repetition over a set: the orders in which a
\* DashMap can iterate its keys.
Orders(S) ==
  { s \in UNION { [1..n -> S] : n \in { Cardinality(S) } } :
      \A i, j \in 1..Len(s) : i # j => s[i] # s[j] }

\* VecDeque::push_front of each parent in turn.
RECURSIVE push_front_all(_, _)
push_front_all(queue, parents) ==
  IF parents = << >> THEN queue
  ELSE push_front_all(<< Head(parents) >> \o queue, Tail(parents))

\* A truncate that keeps every element.
truncate_keep(vec, len) == vec

\* Vec::truncate
truncate(vec, len) == IF len < Len(vec) THEN SubSeq(vec, 1, len) ELSE vec

\* Err(anyhow!("Parent doesn't exist")) and Ok(finished_hierarchies)
DfsErr == [ok |-> FALSE, paths |-> << >>]
DfsOk(finished_hierarchies) == [ok |-> TRUE, paths |-> finished_hierarchies]

\* The elements of a sequence.
Elements(seq) == { seq[k] : k \in 1..Len(seq) }

\* The while loop of upstream_dfs_iterative.
RECURSIVE dfs_loop(_, _, _, _, _)
dfs_loop(objects, queue, current_hierarchy, split_indexes, finished_hierarchies) ==
  IF queue = << >> THEN DfsOk(finished_hierarchies)
  ELSE
    LET current_object == objects[Head(queue)]
        hierarchy == Append(current_hierarchy,
                            ObjectMapping(current_object.object_type, Head(queue)))
        parents == get_parents(current_object)
    IN  IF current_object.object_type = "PROJECT" THEN
          dfs_loop(objects, Tail(queue),
                   IF split_indexes # << >>
                     THEN truncate(hierarchy, split_indexes[Len(split_indexes)])
                     ELSE hierarchy,
                   IF split_indexes # << >>
                     THEN SubSeq(split_indexes, 1, Len(split_indexes) - 1)
                     ELSE split_indexes,
                   Append(finished_hierarchies, hierarchy))
        ELSE IF \E parent_id \in Elements(parents) : parent_id \notin DOMAIN objects THEN
          DfsErr
        ELSE
          dfs_loop(objects, push_front_all(Tail(queue), parents), hierarchy,
                   IF Len(parents) > 1
                     THEN split_indexes \o [k \in 1..(Len(parents) - 1) |-> Len(hierarchy)]
                     ELSE split_indexes,
                   finished_hierarchies)

\* Cache::upstream_dfs_iterative
upstream_dfs_iterative(objects, root) ==
  IF root \notin DOMAIN objects THEN DfsErr
  ELSE dfs_loop(objects, << root >>, << >>, << >>, << >>)

\* Cache::upstream_dfs_recursive and its loop over the parents; paths is
\* finished_hierarchies as the call leaves it when it returns Ok.
RECURSIVE dfs_recursive(_, _, _, _)
RECURSIVE dfs_parents(_, _, _, _)
dfs_recursive(objects, current_object_id, current_path, finished_hierarchies) ==
  IF current_object_id \notin DOMAIN objects THEN DfsErr
  ELSE
    LET current_object == objects[current_object_id]
        path == Append(current_path,
                       ObjectMapping(current_object.object_type, current_object_id))
    IN  IF current_object.object_type = "PROJECT"
          THEN DfsOk(Append(finished_hierarchies, path))
          ELSE dfs_parents(objects, get_parents(current_object), path, finished_hierarchies)

dfs_parents(objects, parents, current_path, finished_hierarchies) ==
  IF parents = << >> THEN DfsOk(finished_hierarchies)
  ELSE LET found == dfs_recursive(objects, Head(parents), current_path, finished_hierarchies)
       IN  IF found.ok
             THEN dfs_parents(objects, Tail(parents), current_path, found.paths)
             ELSE DfsErr

\* Cache::upstream_dfs_recursive called with an empty path and no hierarchy
\* found yet.
upstream_dfs_recursive(objects, root) == dfs_recursive(objects, root, << >>, << >>)

\* The objects that can be created as the id-th of a hierarchy: a project,
\* which has no parent, or another object with parents among the objects
\* created before it.
ObjectsAt(id) ==
  { CachedObject("PROJECT", << >>) } \cup
  { CachedObject(t, p) :
      t \in ObjectTypeInputs \ { "PROJECT" },
      p \in UNION { Orders(S) : S \in (SUBSET (1..(id - 1))) \ { {} } } }

\* The hierarchies of n objects, as add_object leaves the cache.
RECURSIVE HierarchiesOf(_)
HierarchiesOf(n) ==
  IF n = 0 THEN { << >> }
  ELSE { Append(objects, object) : objects \in HierarchiesOf(n - 1), object \in ObjectsAt(n) }

\* Cache::remove_object; 0 removes nothing.
remove_object(objects, id) == [o \in DOMAIN objects \ { id } |-> objects[o]]

\* A hierarchy is drawn, one of its objects may have been removed from the
\* cache, and the traversals start from the object created last; nothing
\* has been traversed yet.
InitDfs ==
  /\ InitExceptCodec
  /\ \E n \in HierarchyIds : \E objects \in HierarchiesOf(n), removed \in 0..(n - 1) :
       conv = [done |-> {}, objects |-> remove_object(objects, removed), root |-> n,
               iterative |-> DfsErr, recursive |-> DfsErr]

\* cache.upstream_dfs_iterative(&root)
DfsIterative ==
  /\ "iterative" \notin conv.done
  /\ conv' = [conv EXCEPT !.iterative = upstream_dfs_iterative(conv.objects, conv.root),
                          !.done = @ \cup { "iterative" }]
  /\ UNCHANGED << storeVars, object_cache, user_cache, auth, issuerVars, queueVars, otherVars >>

\* cache.upstream_dfs_recursive(&root, &mut current_path, &mut recursive_result)
DfsRecursive ==
  /\ "recursive" \notin conv.done
  /\ conv' = [conv EXCEPT !.recursive = upstream_dfs_recursive(conv.objects, conv.root),
                          !.done = @ \cup { "recursive" }]
  /\ UNCHANGED << storeVars, object_cache, user_cache, auth, issuerVars, queueVars, otherVars >>

NextDfs == DfsIterative \/ DfsRecursive

SpecDfs == InitDfs /\ [][NextDfs]_vars

\* The chains of parent links from id up to a project, each as the path of
\* ObjectMappings that names it.
RECURSIVE Chains(_, _)
Chains(objects, id) ==
  LET mapping == ObjectMapping(objects[id].object_type, id)
  IN  IF objects[id].object_type = "PROJECT" THEN { << mapping >> }
      ELSE UNION { { << mapping >> \o chain : chain \in Chains(objects, parent_id) } :
                     parent_id \in Elements(get_parents(objects[id])) \cap DOMAIN objects }

MixedPermittedInputs ==
  { << >> } \cup { << g >> : g \in ObjectIds \X { READ, ADMIN } }

\* A request with a user's token is checked against a resource context and
\* a context that is not about a resource, in either order.
CheckMixed ==
  \E resource_ctx \in ResourceContexts, user_ctx \in UserContexts,
     permitted \in MixedPermittedInputs, user_id \in TokenUsers :
    \E ctxs \in { << resource_ctx, user_ctx >>, << user_ctx, resource_ctx >> } :
      /\ auth = NoAuth
      /\ auth' = Checked(Token(user_id, permitted, FALSE, "None"), ctxs)
      /\ UNCHANGED << object_cache, user_cache, storeVars, issuerVars, codecVars, queueVars, otherVars >>

NextMixed == AddObject \/ CheckMixed \/ Respond

SpecMixed == Init /\ [][NextMixed]_vars

\* A permission of the list reaches the resource of the context along child
\* edges and is at least the level the context asks for.
Covered(objects, permitted, ctx) ==
  \E k \in Reaching(objects, permitted, ctx.id) : permitted[k][2] >= ctx.perm

\* C36: a check of a user's token against a list that holds resource
\* contexts together with an Activated, User or GlobalAdmin context is
\* granted only if each of the resource contexts is covered by the token's
\* permissions, in whatever order the contexts are listed.
C36_MixedListNeedsEveryContext ==
  (/\ auth # NoAuth
   /\ ~auth.is_proxy
   /\ Len(auth.ctxs) = 2
   /\ auth.result = "Ok") =>
    \A k \in 1..Len(auth.ctxs) :
      auth.ctxs[k].variant = "Resource" =>
        Covered(object_cache, auth.permitted, auth.ctxs[k])

(***************************************************************************)
(* Cache::sync_cache beside a reader of the cache (cache.rs:46-90).        *)
(***************************************************************************)
\* DbPubkey::all: the public keys the database holds, by serial.
DbPubkeys == [serial \in { 1 } |-> "pubkey"]

\* What the database can answer to a query of sync_cache.
DbOutcomes == { "Ok", "Err" }

\* sync_cache returning through `?`: the statements after it do not run.
SyncFailed == [sync EXCEPT !.pc = "idle", !.result = "Err"]

\* sync_cache: self.lock.store(true, Relaxed).  The database holds what the
\* cache mirrors: the cache's content, or what the run before read when
\* that run failed and left the cache cleared.
SyncLock ==
  /\ sync.pc = "idle"
  /\ auth = NoAuth
  /\ lock' = TRUE
  /\ sync' = [pc |-> "locked",
              objects |-> IF sync.result = "Err" THEN sync.objects ELSE object_cache,
              users |-> IF sync.result = "Err" THEN sync.users ELSE user_cache,
              before |-> [object |-> object_cache, user |-> user_cache, pubkey |-> pubkeys],
              result |-> "none"]
  /\ UNCHANGED << object_cache, user_cache, auth, pubkeys, getter, storeVars, issuerVars,
                  codecVars, queueVars, startupVars >>

\* sync_cache: object_cache.clear(), user_cache.clear(), pubkeys.clear()
SyncClear ==
  /\ sync.pc = "locked"
  /\ object_cache' = EmptyMap
  /\ user_cache' = EmptyMap
  /\ pubkeys' = EmptyMap
  /\ sync' = [sync EXCEPT !.pc = "cleared"]
  /\ UNCHANGED << auth, lock, getter, storeVars, issuerVars, codecVars, queueVars,
                  startupVars >>

\* sync_cache: db.get_client().await?
SyncGetClient ==
  /\ sync.pc = "cleared"
  /\ \E outcome \in DbOutcomes :
       sync' = IF outcome = "Ok" THEN [sync EXCEPT !.pc = "client"] ELSE SyncFailed
  /\ UNCHANGED << object_cache, user_cache, auth, lock, pubkeys, getter, storeVars,
                  issuerVars, codecVars, queueVars, startupVars >>

\* sync_cache: get_all_objects_with_relations(&client).await? and the
\* inserts into object_cache
SyncObjects ==
  /\ sync.pc = "client"
  /\ \E outcome \in DbOutcomes :
       IF outcome = "Ok"
         THEN /\ object_cache' = sync.objects
              /\ sync' = [sync EXCEPT !.pc = "objects"]
         ELSE /\ sync' = SyncFailed
              /\ UNCHANGED object_cache
  /\ UNCHANGED << user_cache, auth, lock, pubkeys, getter, storeVars, issuerVars,
                  codecVars, queueVars, startupVars >>

\* sync_cache: User::all(&client).await? and the inserts into user_cache
SyncUsers ==
  /\ sync.pc = "objects"
  /\ \E outcome \in DbOutcomes :
       IF outcome = "Ok"
         THEN /\ user_cache' = sync.users
              /\ sync' = [sync EXCEPT !.pc = "users"]
         ELSE /\ sync' = SyncFailed
              /\ UNCHANGED user_cache
  /\ UNCHANGED << object_cache, auth, lock, pubkeys, getter, storeVars, issuerVars,
                  codecVars, queueVars, startupVars >>

\* sync_cache: DbPubkey::all(&client).await? and the inserts into pubkeys,
\* each after PubKeyEnum::try_from(pubkey)?
SyncPubkeys ==
  /\ sync.pc = "users"
  /\ \E outcome \in DbOutcomes :
       IF outcome = "Ok"
         THEN /\ pubkeys' = DbPubkeys
              /\ sync' = [sync EXCEPT !.pc = "pubkeys"]
         ELSE /\ sync' = SyncFailed
              /\ UNCHANGED pubkeys
  /\ UNCHANGED << object_cache, user_cache, auth, lock, getter, storeVars, issuerVars,
                  codecVars, queueVars, startupVars >>

\* sync_cache: self.lock.store(false, Relaxed); Ok(())
SyncUnlock ==
  /\ sync.pc = "pubkeys"
  /\ lock' = FALSE
  /\ sync' = [sync EXCEPT !.pc = "idle", !.result = "Ok"]
  /\ UNCHANGED << object_cache, user_cache, auth, pubkeys, getter, storeVars, issuerVars,
                  codecVars, queueVars, startupVars >>

\* The steps of a run of sync_cache after its first statement.
SyncStep ==
  SyncClear \/ SyncGetClient \/ SyncObjects \/ SyncUsers \/ SyncPubkeys \/ SyncUnlock

\* The getters and the ids they are called with.
GetterKinds == { "object", "user", "pubkey" }
GetterIds(kind) ==
  CASE kind = "object" -> ObjectIds
    [] kind = "user" -> UserIds
    [] kind = "pubkey" -> DOMAIN DbPubkeys

\* get_object(id), get_user(id) or get_pubkey(serial) is called.
GetCall ==
  /\ getter.pc = "idle"
  /\ \E kind \in GetterKinds : \E id \in GetterIds(kind) :
       getter' = [pc |-> "check_lock", kind |-> kind, id |-> id, syncing |-> FALSE,
                  value |-> << >>]
  /\ UNCHANGED << object_cache, user_cache, auth, lock, pubkeys, sync, storeVars,
                  issuerVars, codecVars, queueVars, startupVars >>

\* check_lock: `while self.lock.load(Relaxed) {}` finds the flag false.
CheckLock ==
  /\ getter.pc = "check_lock"
  /\ ~lock
  /\ getter' = [getter EXCEPT !.pc = "checked"]
  /\ UNCHANGED << object_cache, user_cache, auth, lock, pubkeys, sync, storeVars,
                  issuerVars, codecVars, queueVars, startupVars >>

\* DashMap::get(id).map(|x| x.value().clone())
dashmap_get(map, id) == IF id \in DOMAIN map THEN << "Some", map[id] >> ELSE << "None" >>

\* The map a getter reads.
getter_map(kind) ==
  CASE kind = "object" -> object_cache
    [] kind = "user" -> user_cache
    [] kind = "pubkey" -> pubkeys

\* The getter's read of the map, after check_lock returned.
GetRead ==
  /\ getter.pc = "checked"
  /\ getter' = [getter EXCEPT !.pc = "done",
                              !.syncing = sync.pc # "idle",
                              !.value = dashmap_get(getter_map(getter.kind), getter.id)]
  /\ UNCHANGED << object_cache, user_cache, auth, lock, pubkeys, sync, storeVars,
                  issuerVars, codecVars, queueVars, startupVars >>

\* The getter returns.
GetReturn ==
  /\ getter.pc = "done"
  /\ getter' = NoGetter
  /\ UNCHANGED << object_cache, user_cache, auth, lock, pubkeys, sync, storeVars,
                  issuerVars, codecVars, queueVars, startupVars >>

\* The steps of a getter that has been called.
GetterStep == CheckLock \/ GetRead \/ GetReturn

\* An object is added while no run of sync_cache holds the lock flag.
AddObjectUnlocked == ~lock /\ AddObject

NextSync == AddObjectUnlocked \/ SyncLock \/ SyncStep \/ GetCall \/ GetterStep

SpecSync == Init /\ [][NextSync]_vars

\* A run of sync_cache that has started goes on to its return, and a getter
\* that has been called takes its steps when it can: both run on the
\* runtime's threads.
SpecSyncFair == SpecSync /\ WF_vars(SyncStep) /\ WF_vars(GetterStep)

\* C37: every run of sync_cache clears the lock flag in the end, also when
\* a load from the database fails, so a reader waiting in check_lock
\* proceeds in the end.
C37_SyncClearsLock ==
  /\ lock ~> ~lock
  /\ (getter.pc = "check_lock") ~> (getter.pc = "checked")

\* The maps as the database holds them while a run of sync_cache is under way.
synced_map(kind) ==
  CASE kind = "object" -> sync.objects
    [] kind = "user" -> sync.users
    [] kind = "pubkey" -> DbPubkeys

\* C38: a getter that reads the cache while sync_cache runs returns the
\* entry of an id that the cache held before the run and holds after it,
\* never a missing entry.
C38_GetterNeverSeesClearedCache ==
  (/\ getter.pc = "done"
   /\ getter.syncing
   /\ getter.id \in DOMAIN sync.before[getter.kind]
   /\ getter.id \in DOMAIN synced_map(getter.kind)) =>
    getter.value = << "Some", synced_map(getter.kind)[getter.id] >>

(***************************************************************************)
(* What a call of refresh_jwks leaves of the issuer (issuer_handler.rs).   *)
(***************************************************************************)
\* The errors refresh_jwks returns.
RefreshErrors ==
  { "Err(JWKS was updated less than 5 minutes ago)",
    "Err(Only OIDC issuers can refresh JWKS)",
    "Err(Invalid endpoint type)",
    "Err(fetch_jwks)" }

\* C39: a refresh_jwks that fails, for whichever reason, leaves the issuer's
\* decoding_keys and last_updated as they were; the two change only when a
\* fetch succeeds, and then both are set, to the fetched keys and to the
\* time of the fetch.
C39_FailedRefreshChangesNothing ==
  [][
    \A name \in IssuerNames :
      /\ (/\ call.pc # "done"
          /\ call'.pc = "done"
          /\ call'.issuer = name
          /\ call'.refreshes > 0
          /\ call'.result \in RefreshErrors) =>
           /\ issuers'[name] = issuers[name]
           /\ issuers'[name] = call'.before
      /\ issuers'[name] # issuers[name] =>
           /\ call.pc = "fetching"
           /\ call.issuer = name
           /\ call'.pc = "done"
           /\ call'.result \notin RefreshErrors
           /\ issuers'[name].decoding_keys = jwks
           /\ issuers'[name].last_updated = now
           /\ issuers'[name].last_updated # issuers[name].last_updated
  ]_vars

\* A refresh_jwks of the OIDC issuer whose fetch failed has returned while
\* the endpoint serves keys the issuer does not hold.
C39_Witness ==
  /\ call.pc = "done"
  /\ call.op = "refresh_jwks"
  /\ call.result = "Err(fetch_jwks)"
  /\ call.fetches = 1
  /\ jwks # call.before.decoding_keys
  /\ issuers[call.issuer] = call.before

(***************************************************************************)
(* AddUser requests of the members of a group (group.rs:173-262), on a     *)
(* store that holds a user with Admin and a service account with Read on   *)
(* the group.                                                              *)
(***************************************************************************)
\* The requesters: the user and the service account of the store.
MemberRequesters == { Ulid(0), Ulid(2) }

\* The ids named as the user to add: the service account and an id that is
\* not in the store.
MemberUserIds == { Ulid(2), UnknownId }

\* AddUserRequest::run_request and the first line of execute for the given
\* requester and group: controller.authorize(&self.requester, &self.req)
\* returns the error, or execute goes on to store.write_txn().
AddUserBy(w, requester, group_id) ==
  /\ pc[w] = "idle"
  /\ reqCtr < MaxRequests
  /\ \E permission \in PermissionInputs, user_id \in MemberUserIds,
        ms \in {clock + 1}, random \in UlidRandom :
       LET r == [NoReq EXCEPT !.kind = "AddUser", !.requester = requester,
                              !.group_id = group_id, !.user_id = user_id,
                              !.permission = permission]
       IN  /\ req' = [req EXCEPT ![w] = r]
           /\ IF authorize(graph, documents, r)
                THEN /\ loc' = [loc EXCEPT ![w] = [NoLoc EXCEPT !.event_id = UlidNew(ms, random)]]
                     /\ pc' = [pc EXCEPT ![w] = "write_txn"]
                     /\ UNCHANGED result
                ELSE /\ pc' = [pc EXCEPT ![w] = "done"]
                     /\ result' = [result EXCEPT ![w] = Outcome("Forbidden")]
                     /\ UNCHANGED loc
           /\ clock' = ms
  /\ reqCtr' = reqCtr + 1
  /\ UNCHANGED << kvVars, wtxn, graph, ulidCtr, readerVars, crashes, ghost >>
  /\ UNCHANGED serverVars

\* An AddUser request of one of the requesters for a group of the store.
RunAddUserAs(w) ==
  \E requester \in MemberRequesters, group_id \in GroupIds(ulidCtr) :
    AddUserBy(w, requester, group_id)

\* The steps of a handler of AddUser requests.
MemberNext(w) ==
  \/ RunAddUserAs(w)
  \/ WriteTxn(w)
  \/ CreateRelation(w)
  \/ Commit(w)
  \/ Return(w)

NextMember == \E w \in Writers : MemberNext(w)

SpecMember == InitAccount /\ [][NextMember]_vars

\* The graph holds a PermissionAdmin edge from the requester to the group.
HoldsAdmin(requester, group_id) ==
  \E e \in Edges(graph) :
    /\ e.source = get_idx_from_ulid(requester, documents)
    /\ e.target = get_idx_from_ulid(group_id, documents)
    /\ e.source # NoIdx
    /\ e.target # NoIdx
    /\ e.edge_type = PERMISSION_ADMIN

\* C40: an AddUser request of a requester that does not hold Admin on the
\* group ends with the authorization error in the step that takes it up:
\* the handler never reaches store.write_txn(), and relations, the graph,
\* the event log and the write transaction of another handler are unchanged.
C40_AddUserNeedsAdmin ==
  [][\A w \in Writers, requester \in MemberRequesters, group_id \in GroupIds(ulidCtr) :
       (AddUserBy(w, requester, group_id) /\ ~HoldsAdmin(requester, group_id)) =>
         /\ pc'[w] = "done"
         /\ result'[w].status = "Forbidden"
         /\ wtxn' = wtxn
         /\ graph' = graph
         /\ documents' = documents
         /\ relations' = relations
         /\ events' = events
    ]_vars

\* The service account, which holds Read on the group, asked to add a user
\* to it while another handler's write transaction was open, and was refused.
C40_Witness ==
  \E w \in Writers :
    /\ pc[w] = "done"
    /\ result[w].status = "Forbidden"
    /\ req[w].kind = "AddUser"
    /\ req[w].requester = Ulid(2)
    /\ req[w].group_id = Ulid(4)
    /\ get_permissions(graph, documents, Ulid(4), Ulid(2)) = PERMISSION_READ
    /\ wtxn.owner \notin { "none", w }

====
